---- MODULE Spec2Model ----
(***************************************************************************)
(* Model of the concurrent queue-processing core of processor.py: the      *)
(* worker pool running process_message / process_question, the assistant   *)
(* pool (get_available_assistant, update_thread_assignment,                *)
(* release_assistant, replenish_assistant_pool, cleanup_task,              *)
(* initialize_assistant_pool), the thread cache, the in-flight tracker     *)
(* active_requests, the conversation buffer and the durable store.         *)
(*                                                                         *)
(* One atomic step of a worker is one lock section of the source (the code *)
(* between acquiring and releasing one of the four RLocks) or one call to  *)
(* an external service (store, OpenAI).  Where the source acquires a       *)
(* second lock while it holds a first one, the acquisition of the second   *)
(* lock is a step of its own, so that the lock order is visible.           *)
(* The clock is counted in units of one hour (3600 s of time.time()).      *)
(***************************************************************************)
EXTENDS Integers, Sequences, FiniteSets, TLC

\* ------------------------------------------------------------ configuration
ASSISTANT_POOL_SIZE == 2
THREAD_LIFETIME_HOURS == 1
THREAD_LIFETIME_SECONDS == THREAD_LIFETIME_HOURS
CLEANUP_INTERVAL_HOURS == 1
MAX_WORKERS == 2
MAX_MESSAGE_COUNT == 3
BULK_INSERT_THRESHOLD == 10

\* ------------------------------------------------------------------ bounds
MaxTime == 2
MaxAssistants == 3
MaxDeliveries == 3
MaxDeletes == 1
MaxFaults == 2
MaxRestarts == 1
MaxRecords == 3
MaxFailing == 5
MaxErrorCount == 22

\* ------------------------------------------------------------------ values
None == "None"
NoAssistant == 0
NoThread == 0
NoTime == -1

Workers == 1..MAX_WORKERS
NoWorker == 0
NoDelivery == 0
RequestIds == {"r1", "r2", "r3"}
Users == {"u1", "u2", "u3"}
AssistantIds == 1..MaxAssistants
ThreadIds == 1..MaxDeliveries
Questions == {<<"show", "sales">>, <<"bye">>}

Min(S) == CHOOSE x \in S : \A y \in S : x <= y
Range(s) == {s[i] : i \in 1..Len(s)}
Restrict(f, S) == [x \in S |-> f[x]]
\* A wrong removal: the list keeps the element.
KeepsElement(s, e) == s

RemoveFirst(s, e) ==
    IF e \notin Range(s) THEN s
    ELSE LET i == Min({j \in 1..Len(s) : s[j] = e})
         IN  SubSeq(s, 1, i - 1) \o SubSeq(s, i + 1, Len(s))

\* ------------------------------------------------------------------- state
VARIABLES
    now,                    \* time.time(), in hours
    active_requests,        \* request_id -> start time
    marker_owner,           \* history: the delivery whose task inserted each in-flight marker
    assistant_pool,         \* list of assistant ids
    assistant_assignments,  \* assistant_id -> {user_email, thread_id, last_used, in_use}
    thread_cache,           \* user_email -> {assistant_id, thread_id, created_at}, in insertion order
    pending_conversations,  \* list of conversation documents (their request ids)
    lock_owner,             \* the thread holding each RLock, NoWorker when free
    worker,                 \* per worker thread: position and locals of process_message
    task_queue,             \* messages submitted to the executor, not yet started
    futures,                \* results of the finished tasks of the current batch
    dispatch_pc,            \* position of the dispatch loop of main()
    delivered,              \* number of messages received so far
    requests,               \* durable store, requests collection: request_id -> status
    conversations,          \* durable store, conversations collection: request_id -> documents
    flush_log,              \* history: records appended, written in bulk, written singly, dropped
    pool_collection,        \* durable store, assistant_pool collection
    openai_assistants,      \* assistants that exist at the completion service
    created_assistants,     \* number of assistants created so far (ids are 1, 2, ...)
    deleted_assistants,     \* number of assistants deleted behind the program's back
    faults,                 \* number of external calls that have failed so far
    db_call,                \* the last call of a decorated store operation
    consecutive_connection_errors,  \* connectivity failures since the last success
    error_count,            \* errors of the dispatch loop since the last metrics log
    exit_code,              \* exit code of the process, NoExit while it runs
    health_log,             \* requests a 'stuck_threads' health event has named
    last_cleanup_time,      \* when cleanup_task last ran
    restarts                \* number of restarts of the process so far

vars == <<now, active_requests, marker_owner, assistant_pool, assistant_assignments,
          thread_cache, pending_conversations, lock_owner, worker, task_queue,
          futures, dispatch_pc, delivered, requests, conversations, flush_log,
          pool_collection, openai_assistants, created_assistants,
          deleted_assistants, faults, db_call, consecutive_connection_errors,
          error_count, exit_code, health_log, last_cleanup_time, restarts>>

trackerVars == <<active_requests, marker_owner>>
poolVars == <<assistant_pool, assistant_assignments>>
dispatchVars == <<task_queue, futures, dispatch_pc, delivered>>
storeVars == <<requests, conversations, pool_collection>>
openaiVars == <<openai_assistants, created_assistants, deleted_assistants>>
lifeVars == <<last_cleanup_time, restarts>>
healthVars == <<consecutive_connection_errors, error_count, exit_code, health_log>>

LockNames == {"active_requests_lock", "assistant_pool_lock", "thread_cache_lock",
              "pending_conversations_lock"}

\* ------------------------------------------------------- assistant pool logic
\* A slot as initialize_assistant_pool and replenish_assistant_pool create it.
NewSlot == [user_email |-> None, thread_id |-> NoThread, last_used |-> NoTime, in_use |-> FALSE]

\* A wrong assignment: the slot is written without being marked in use.
Unmarked(user_email, t) ==
    [user_email |-> user_email, thread_id |-> NoThread, last_used |-> t, in_use |-> FALSE]

\* The slot get_available_assistant writes when it assigns an assistant.
AssignedSlot(user_email, t) ==
    [user_email |-> user_email, thread_id |-> NoThread, last_used |-> t, in_use |-> TRUE]

\* The slot release_assistant writes.
ReleasedSlot(t) == [user_email |-> None, thread_id |-> NoThread, last_used |-> t, in_use |-> FALSE]

\* thread_cache is a dict: a list of entries with distinct keys, in insertion order.
CacheKeys(cache) == {cache[i].user_email : i \in 1..Len(cache)}
CacheGet(cache, user_email) ==
    cache[CHOOSE i \in 1..Len(cache) : cache[i].user_email = user_email]
CacheDel(cache, user_email) ==
    SelectSeq(cache, LAMBDA e : e.user_email # user_email)
CachePut(cache, entry) ==
    IF entry.user_email \in CacheKeys(cache)
    THEN [i \in 1..Len(cache) |->
             IF cache[i].user_email = entry.user_email THEN entry ELSE cache[i]]
    ELSE Append(cache, entry)

\* A wrong expiry test: no entry ever counts as expired.
NeverExpired(created_at, t) == FALSE

\* A wrong expiry test: an entry as old as the lifetime counts as expired.
ExpiredAtLifetime(created_at, t) == t - created_at >= THREAD_LIFETIME_SECONDS

\* get_available_assistant: has the thread of a cache entry expired?
ThreadExpired(created_at, t) == t - created_at > THREAD_LIFETIME_SECONDS

\* get_available_assistant, the section under thread_cache_lock.
SessionState(cache, user_email, t) ==
    IF user_email \notin CacheKeys(cache) THEN "miss"
    ELSE IF ThreadExpired(CacheGet(cache, user_email).created_at, t) THEN "expired"
    ELSE "valid"

\* A wrong search: it never finds an assistant that is not in use.
NoneFree(pool, assignments) == NoAssistant

\* get_available_assistant: the first assistant of the pool that is not in use
\* (NoAssistant when there is none).
FirstFree(pool, assignments) ==
    LET free == {i \in 1..Len(pool) : ~assignments[pool[i]].in_use}
    IN  IF free = {} THEN NoAssistant ELSE pool[Min(free)]

\* A wrong search: it never finds a least recently used assistant.
NoneRecent(pool, assignments) == NoAssistant

\* get_available_assistant: the least recently used assistant of the pool; the
\* loop keeps the first one among equals and skips a last_used of None.
LeastRecent(pool, assignments) ==
    LET used == {i \in 1..Len(pool) : assignments[pool[i]].last_used # NoTime}
        lru(i) == \A j \in used :
                      \/ assignments[pool[i]].last_used < assignments[pool[j]].last_used
                      \/ /\ assignments[pool[i]].last_used = assignments[pool[j]].last_used
                         /\ i <= j
    IN  IF used = {} THEN NoAssistant ELSE pool[CHOOSE i \in used : lru(i)]

\* A wrong section: it assigns an assistant that is not in use and never
\* falls back to the least recently used one.
FreeOnly(pool, assignments) == FirstFree(pool, assignments)

\* get_available_assistant, the section under assistant_pool_lock: the
\* assistant it assigns (NoAssistant: none, the emergency path follows).
ChooseAssistant(pool, assignments) ==
    IF FirstFree(pool, assignments) # NoAssistant
    THEN FirstFree(pool, assignments)
    ELSE LeastRecent(pool, assignments)

\* release_assistant: the cache entry it removes (the first whose assistant_id
\* matches, then break).
ReleaseCache(cache, assistant_id) ==
    LET hit == {i \in 1..Len(cache) : cache[i].assistant_id = assistant_id}
    IN  IF hit = {} THEN cache
        ELSE SubSeq(cache, 1, Min(hit) - 1) \o SubSeq(cache, Min(hit) + 1, Len(cache))

\* replenish_assistant_pool / initialize_assistant_pool: how many to create.
AssistantsToAdd(pool) ==
    IF ASSISTANT_POOL_SIZE - Len(pool) > 0 THEN ASSISTANT_POOL_SIZE - Len(pool) ELSE 0

\* process_question: is the question a termination request?
IsTermination(question) ==
    \E i \in 1..Len(question) : question[i] \in {"bye", "exit", "end"}

\* ------------------------------------------------------------ queue messages
\* The JSON body of a queue message; a field the body lacks reads None
\* (body.get), an absent question is the empty word list.
Message(request_id, question, assistant_id, thread_id, user_email) ==
    [request_id |-> request_id, question |-> question, assistant_id |-> assistant_id,
     thread_id |-> thread_id, user_email |-> user_email, decodes |-> TRUE]

NoMessage == Message(None, <<>>, NoAssistant, NoThread, None)

\* A body that is not UTF-8 or not JSON: json.loads raises (line 762).
Undecodable == [NoMessage EXCEPT !.decodes = FALSE]

\* Bodies that lack a required field: the question, the request_id, or both.
MissingField(request_ids, users) ==
    {Message(r, <<>>, NoAssistant, NoThread, u) : r \in request_ids, u \in users}
    \cup {Message(None, <<"show", "sales">>, NoAssistant, NoThread, u) : u \in users}
    \cup {NoMessage}

\* The handles a message carries: none in a caller's first message, later
\* the assistant and the thread an earlier answer reported.
Handles == {<<NoAssistant, NoThread>>} \cup {<<a, 1>> : a \in 1..ASSISTANT_POOL_SIZE}

\* The messages callers send, and the invalid ones: a body without a
\* required field, a body that does not decode.
Messages(request_ids, users) ==
    {Message(r, q, h[1], h[2], u) :
        r \in request_ids, q \in Questions, h \in Handles, u \in users}
    \cup MissingField(request_ids, users) \cup {Undecodable}

\* A process_question result: status and the handles it reports.
Result(status, assistant_id, thread_id) ==
    [status |-> status, assistant_id |-> assistant_id, thread_id |-> thread_id]
NoResult == Result("none", NoAssistant, NoThread)

\* A document of the requests collection: its status and its result payload.
RequestDoc(status, result) == [status |-> status, result |-> result]

\* A worker thread that runs no task.
IdleWorker ==
    [pc |-> "idle", task |-> 0, message |-> NoMessage, processing_started |-> FALSE,
     assistant_id |-> NoAssistant, thread_id |-> NoThread, new_thread_created |-> FALSE,
     in_handler |-> FALSE, result |-> NoResult, action |-> "none",
     \* history of the task, read by the properties only
     start_status |-> "none", called |-> FALSE, wrote_processing |-> FALSE,
     store_error |-> FALSE, early_error |-> FALSE, released |-> FALSE,
     session |-> "none", raised |-> FALSE]

\* ---------------------------------------------------------------- durable store
\* get_request_status: the document's status, None when there is no document.
StatusOf(reqs, request_id) ==
    IF request_id \in DOMAIN reqs THEN reqs[request_id].status ELSE None

\* An update that writes nothing.
UpdateLost(reqs, request_id, status, result) == reqs

\* update_request_status: update_one without upsert, so a request without a
\* document stays without one; the result is written only when one is given.
UpdateRequestStatus(reqs, request_id, status, result) ==
    IF request_id \notin DOMAIN reqs THEN reqs
    ELSE IF result = NoResult
    THEN [reqs EXCEPT ![request_id].status = status]
    ELSE [reqs EXCEPT ![request_id] = RequestDoc(status, result)]

\* A status check that never short-circuits.
NeverProcessed(status) == FALSE

\* A status check that lets requests in status 'error' through.
OnlyCompleted(status) == status = "completed"

\* process_message: does the persisted status short-circuit the request?
AlreadyProcessed(status) == status \in {"completed", "error"}

\* ------------------------------------------------------------------- failures
\* An external call (store, OpenAI) may fail; the number of failures of a run
\* is bounded.  Outcome(ok) counts the failure of a call that returns ok.
CanFail == faults < MaxFaults
Outcomes == IF CanFail THEN BOOLEAN ELSE {TRUE}
Outcome(ok) == faults' = IF ok THEN faults ELSE faults + 1

\* ------------------------------------------------------------- health
\* Line 97, and the literal of line 1133.
MAX_CONNECTION_ERRORS == 10
MAX_BATCH_ERRORS == 20

\* The process has not exited.
NoExit == -1

\* restart_processing ends with sys.exit(1), line 448.
RESTART_EXIT_CODE == 1

\* Lines 997 and 1118: more consecutive connection errors than allowed.
TooManyConnectionErrors(errors) == errors > MAX_CONNECTION_ERRORS

\* ---------------------------------------------------- decorated operations
\* max_tries of the backoff policy, database.py line 131.
MAX_TRIES == 5

\* db_operation_with_retry, database.py lines 137-151: a call of a decorated
\* store operation while the store fails the next `failing` attempts with a
\* transient connectivity error.  wrapper() calls func once (line 141) and
\* raises again what func raised (lines 142-150).  The backoff policy of
\* lines 128-136 decorates db_operation_with_retry, the function that builds
\* the wrapper and never raises, not the wrapper that runs at call time.
Wrapper(failing) == [attempts |-> 1, raised |-> failing >= 1]

\* What a call leaves in db_call: the operation, the attempts of the store
\* that fail, the attempts made, and whether the caller saw an exception.
DbCall(op, failing) ==
    [op |-> op, failing |-> failing, attempts |-> Wrapper(failing).attempts,
     raised |-> Wrapper(failing).raised]

NoCall == [op |-> "none", failing |-> 0, attempts |-> 0, raised |-> FALSE]

\* --------------------------------------------------------------------- locks
\* A with block that keeps its locks when it is left.
KeepsLocks(owners, names) == owners

\* Leaving the with blocks of the locks `names`: they become free.
Released(owners, names) ==
    [l \in DOMAIN owners |-> IF l \in names THEN NoWorker ELSE owners[l]]

\* An RLock can be taken by a thread when it is free or the thread holds it.
CanLock(l, w) == lock_owner[l] \in {NoWorker, w}
Holds(l, w) == lock_owner[l] = w

\* ------------------------------------------------------------- dispatch loop
\* The future of a submitted task: the message it was submitted with, the
\* action process_message returned ("raise": it raised), and the history of
\* the task that the properties read.
Future(message) ==
    [message |-> message, action |-> "none", start_status |-> "none", called |-> FALSE,
     wrote_processing |-> FALSE, store_error |-> FALSE, early_error |-> FALSE,
     raised |-> FALSE, result |-> NoResult]

\* main(): receiver.receive_messages returns a batch; every message is
\* submitted to the executor.
ReceiveBatch(batches) ==
    /\ dispatch_pc = "poll"
    /\ \E batch \in batches :
          /\ Len(batch) <= MAX_MESSAGE_COUNT
          /\ delivered + Len(batch) <= MaxDeliveries
          /\ task_queue' = batch
          /\ futures' = [i \in 1..Len(batch) |-> Future(batch[i])]
          /\ delivered' = delivered + Len(batch)
    /\ dispatch_pc' = "wait"
    /\ UNCHANGED <<now, db_call, healthVars, lifeVars, flush_log, faults, trackerVars, poolVars, thread_cache,
                   pending_conversations,
                   lock_owner, worker, storeVars, openaiVars>>

\* ThreadPoolExecutor: an idle thread takes the next submitted task.  The
\* threads are interchangeable, so the lowest idle one takes it.
StartTask(w) ==
    /\ dispatch_pc \in {"wait", "stopping"}
    /\ task_queue # <<>>
    /\ worker[w].pc = "idle"
    /\ w = Min({v \in Workers : worker[v].pc = "idle"})
    /\ worker' = [worker EXCEPT ![w] =
          [IdleWorker EXCEPT !.pc = "pm_claim", !.message = Head(task_queue),
              !.task = Len(futures) - Len(task_queue) + 1,
              !.start_status = StatusOf(requests, Head(task_queue).request_id)]]
    /\ task_queue' = Tail(task_queue)
    /\ UNCHANGED <<now, db_call, healthVars, lifeVars, flush_log, faults, trackerVars, poolVars, thread_cache,
                   pending_conversations,
                   lock_owner, futures, dispatch_pc, delivered, storeVars, openaiVars>>

\* The number of the delivery a worker processes: messages are numbered in
\* the order they are received.
DeliveryOf(w) == delivered - Len(futures) + worker[w].task

\* The task's future is done: its result is the action process_message
\* returned ("raise": the exception it raised).
Done(w) ==
    [message |-> worker[w].message, action |-> worker[w].action,
     start_status |-> worker[w].start_status, called |-> worker[w].called,
     wrote_processing |-> worker[w].wrote_processing,
     store_error |-> worker[w].store_error, early_error |-> worker[w].early_error,
     raised |-> worker[w].raised, result |-> worker[w].result]

\* A dispatch loop that settles a message by the returned action only.
AsReturned(action) == action

\* main(), lines 1051-1065: what the dispatch thread does with the message of
\* a finished future: complete it when the task returned "complete", abandon
\* it when it returned "abandon" or when future.result() raises.
Disposition(action) == IF action = "complete" THEN "complete" ELSE "abandon"

\* A wait that returns as soon as one task of the batch has finished.
FirstCompleted ==
    /\ dispatch_pc = "wait"
    /\ \E i \in 1..Len(futures) : futures[i].action # "none"

\* main(): wait() has returned, every future is done.
BatchDone ==
    /\ dispatch_pc = "wait"
    /\ task_queue = <<>>
    /\ \A w \in Workers : worker[w].pc = "idle"

\* main(): the dispatch thread completes or abandons every message of the
\* batch (a raised exception abandons it), then polls again.
ApplyActions ==
    /\ BatchDone
    /\ futures' = <<>>
    /\ dispatch_pc' = "poll"
    /\ UNCHANGED <<now, db_call, healthVars, lifeVars, flush_log, faults, trackerVars, poolVars, thread_cache,
                   pending_conversations,
                   lock_owner, worker, task_queue, delivered, storeVars, openaiVars>>

\* ------------------------------------------------------------ process_message
\* A worker step changes the worker and what the step names; this is the rest.
Goto(w, pc) == worker' = [worker EXCEPT ![w].pc = pc]

\* A wrong check of the required fields: it misses an absent question.
OnlyRequestIdRequired(request_id, question) == request_id = None

\* process_message, line 772: is a required field absent?
LacksRequired(request_id, question) == request_id = None \/ question = <<>>

\* Lines 753-784: parse the body (a body that does not decode raises), check
\* the required fields, then under active_requests_lock skip a request that
\* is in flight or mark it in flight.
PmClaim(w) ==
    LET m == worker[w].message IN
    /\ worker[w].pc = "pm_claim"
    /\ IF ~m.decodes
       THEN /\ Goto(w, "pm_except")
            /\ UNCHANGED trackerVars
       ELSE IF LacksRequired(m.request_id, m.question)
       THEN /\ worker' = [worker EXCEPT ![w].pc = "pm_flush", ![w].action = "complete"]
            /\ UNCHANGED trackerVars
       ELSE /\ CanLock("active_requests_lock", w)
            /\ IF m.request_id \in DOMAIN active_requests
               THEN /\ worker' = [worker EXCEPT ![w].pc = "pm_finally",
                                                ![w].action = "complete"]
                    /\ UNCHANGED trackerVars
               ELSE /\ active_requests' =
                           [r \in DOMAIN active_requests \cup {m.request_id} |->
                               IF r = m.request_id THEN now ELSE active_requests[r]]
                    /\ marker_owner' = [marker_owner EXCEPT ![m.request_id] = DeliveryOf(w)]
                    /\ worker' = [worker EXCEPT ![w].pc = "pm_status",
                                                ![w].processing_started = TRUE]
    /\ UNCHANGED <<now, db_call, healthVars, lifeVars, flush_log, faults, poolVars, thread_cache, pending_conversations,
                   lock_owner,
                   dispatchVars, storeVars, openaiVars>>

\* Lines 787-790: read the persisted status (the read may raise).
PmStatus(w) ==
    LET m == worker[w].message IN
    /\ worker[w].pc = "pm_status"
    /\ \E ok \in Outcomes :
          /\ Outcome(ok)
          /\ worker' = [worker EXCEPT
              ![w].pc = IF ~ok THEN "pm_except"
                        ELSE IF AlreadyProcessed(StatusOf(requests, m.request_id))
                        THEN "pm_skip" ELSE "pm_processing",
              ![w].store_error = @ \/ ~ok]
    /\ UNCHANGED <<now, db_call, healthVars, lifeVars, flush_log, trackerVars, poolVars, thread_cache, pending_conversations,
                   lock_owner, dispatchVars, storeVars, openaiVars>>

\* A wrong removal: the marker stays.
KeepsMarker(markers, request_id) == markers

\* process_message: removing the request's in-flight marker, when it is there.
RemoveMarker(markers, request_id) == Restrict(markers, DOMAIN markers \ {request_id})

\* Lines 791-795: the request was processed before; remove the marker and
\* return "complete".
PmSkip(w) ==
    LET m == worker[w].message IN
    /\ worker[w].pc = "pm_skip"
    /\ CanLock("active_requests_lock", w)
    /\ active_requests' = RemoveMarker(active_requests, m.request_id)
    /\ marker_owner' = [marker_owner EXCEPT ![m.request_id] = NoDelivery]
    /\ worker' = [worker EXCEPT ![w].pc = "pm_finally", ![w].action = "complete",
                                ![w].released = TRUE]
    /\ UNCHANGED <<now, db_call, healthVars, lifeVars, flush_log, faults, poolVars, thread_cache, pending_conversations,
                   lock_owner,
                   dispatchVars, storeVars, openaiVars>>

\* process_question, lines 580-615: where a question starts.  A termination
\* request releases the handle the message carries or just says goodbye; any
\* other question takes an assistant from the pool unless the message
\* carries handles.
QuestionEntry(m) ==
    IF IsTermination(m.question)
    THEN IF m.assistant_id # NoAssistant THEN "pq_bye_pool" ELSE "pq_goodbye"
    ELSE IF m.assistant_id = NoAssistant /\ m.thread_id = NoThread /\ m.user_email # None
         THEN "ga_cache" ELSE "pq_init"

\* Lines 800-811: update_request_status(request_id, "processing") (may
\* raise), then process_question starts.
PmProcessing(w) ==
    LET m == worker[w].message IN
    /\ worker[w].pc = "pm_processing"
    /\ \E ok \in Outcomes :
          /\ Outcome(ok)
          /\ requests' = IF ok
                THEN UpdateRequestStatus(requests, m.request_id, "processing", NoResult)
                ELSE requests
          /\ worker' = [worker EXCEPT
                ![w].pc = IF ok THEN QuestionEntry(m) ELSE "pm_except",
                ![w].wrote_processing = ok,
                ![w].assistant_id = m.assistant_id,
                ![w].thread_id = m.thread_id,
                ![w].store_error = @ \/ ~ok]
    /\ UNCHANGED <<now, db_call, healthVars, lifeVars, flush_log, trackerVars, poolVars, thread_cache, pending_conversations,
                   lock_owner, dispatchVars, conversations, pool_collection, openaiVars>>

\* Lines 813-821: persist the final status with the result (may raise), then
\* return "complete".
PmFinal(w) ==
    LET m == worker[w].message
        status == IF worker[w].result.status = "success" THEN "completed" ELSE "error"
    IN
    /\ worker[w].pc = "pm_final"
    /\ \E ok \in Outcomes :
          /\ Outcome(ok)
          /\ requests' = IF ok
                THEN UpdateRequestStatus(requests, m.request_id, status, worker[w].result)
                ELSE requests
          /\ worker' = [worker EXCEPT
                ![w].pc = IF ok THEN "pm_finally" ELSE "pm_except",
                ![w].action = IF ok THEN "complete" ELSE @,
                ![w].store_error = @ \/ ~ok]
    /\ UNCHANGED <<now, db_call, healthVars, lifeVars, flush_log, trackerVars, poolVars, thread_cache, pending_conversations,
                   lock_owner, dispatchVars, conversations, pool_collection, openaiVars>>

\* Lines 823-835: the exception handler records status "error" when a
\* request_id was parsed and returns "abandon"; when that write raises too,
\* the exception leaves process_message.
PmExcept(w) ==
    LET m == worker[w].message IN
    /\ worker[w].pc = "pm_except"
    /\ \E ok \in IF m.request_id = None THEN {TRUE} ELSE Outcomes :
          /\ Outcome(ok)
          /\ requests' = IF ok /\ m.request_id # None
                THEN UpdateRequestStatus(requests, m.request_id, "error",
                                         Result("error", NoAssistant, NoThread))
                ELSE requests
          /\ worker' = [worker EXCEPT
                ![w].pc = "pm_finally",
                ![w].action = IF ok \/ m.request_id = None THEN "abandon" ELSE "raise",
                ![w].store_error = @ \/ (~ok /\ m.request_id # None)]
    /\ UNCHANGED <<now, db_call, healthVars, lifeVars, flush_log, trackerVars, poolVars, thread_cache, pending_conversations,
                   lock_owner, dispatchVars, conversations, pool_collection, openaiVars>>

\* A finally clause that never cleans up.
NeverCleansUp(processing_started, request_id) == FALSE

\* process_message, finally: is the marker cleaned up on this exit?
CleansUp(processing_started, request_id) == processing_started /\ request_id # None

\* Lines 837-842: finally, remove the in-flight marker.
PmFinally(w) ==
    LET m == worker[w].message IN
    /\ worker[w].pc = "pm_finally"
    /\ IF CleansUp(worker[w].processing_started, m.request_id)
       THEN /\ CanLock("active_requests_lock", w)
            /\ active_requests' = RemoveMarker(active_requests, m.request_id)
            /\ marker_owner' = [marker_owner EXCEPT ![m.request_id] = NoDelivery]
       ELSE UNCHANGED trackerVars
    /\ Goto(w, "pm_flush")
    /\ UNCHANGED <<now, db_call, healthVars, lifeVars, flush_log, faults, poolVars, thread_cache, pending_conversations,
                   lock_owner,
                   dispatchVars, storeVars, openaiVars>>

\* A wrong flush test: force is ignored.
ThresholdOnly(force, pending) == Len(pending) >= BULK_INSERT_THRESHOLD

\* maybe_flush_conversation_batch: does this call take the buffer?
ShouldFlush(force, pending) == force \/ Len(pending) >= BULK_INSERT_THRESHOLD

\* The conversations collection with the documents of the records added.
AddDocs(convs, records) ==
    [r \in DOMAIN convs |->
        convs[r] + Cardinality({i \in 1..Len(records) : records[i] = r})]

\* The records of a batch at the positions of a set.
Pick(records, positions) ==
    SelectSeq([i \in 1..Len(records) |->
                   IF i \in positions THEN records[i] ELSE None],
              LAMBDA r : r # None)

\* The empty collection and the log of a process that has not flushed yet.
NoConversations == [r \in RequestIds |-> 0]
NoFlushes == [appended |-> 0, bulk |-> 0, single |-> 0, dropped |-> 0]

\* maybe_flush_conversation_batch, lines 552-565: the records the fallback
\* loop tries to write one by one after a bulk write that persisted the
\* first `persisted` records and then raised: all of them.
Fallback(records, persisted) == 1..Len(records)

\* maybe_flush_conversation_batch: snapshot and clear the buffer under
\* pending_conversations_lock, then one bulk write (insert_many, ordered: it
\* persists the records before the one that fails); when that raises, one
\* write per record, a record whose write raises is logged and dropped.
Flush(w, force) ==
    LET batch == pending_conversations IN
    /\ CanLock("pending_conversations_lock", w)
    /\ IF ShouldFlush(force, batch) /\ batch # <<>>
       THEN /\ pending_conversations' = <<>>
            /\ \E bulk_ok \in Outcomes :
                  IF bulk_ok
                  THEN /\ conversations' = AddDocs(conversations, batch)
                       /\ flush_log' = [flush_log EXCEPT !.bulk = @ + Len(batch)]
                       /\ UNCHANGED faults
                  ELSE \E persisted \in 0..(Len(batch) - 1) :
                       \E stored \in SUBSET Fallback(batch, persisted) :
                          LET dropped == Cardinality(Fallback(batch, persisted) \ stored)
                          IN  /\ faults + 1 + dropped <= MaxFaults
                              /\ faults' = faults + 1 + dropped
                              /\ conversations' =
                                    AddDocs(AddDocs(conversations,
                                                    SubSeq(batch, 1, persisted)),
                                            Pick(batch, stored))
                              /\ flush_log' = [flush_log EXCEPT
                                    !.bulk = @ + persisted,
                                    !.single = @ + Cardinality(stored),
                                    !.dropped = @ + dropped]
       ELSE /\ pending_conversations' =
                  IF ShouldFlush(force, batch) THEN <<>> ELSE batch
            /\ UNCHANGED <<conversations, flush_log, faults>>

\* Line 845: finally, the forced flush; then process_message has returned
\* and the task's future is done.
PmFlush(w) ==
    /\ worker[w].pc = "pm_flush"
    /\ Flush(w, TRUE)
    /\ futures' = [futures EXCEPT ![worker[w].task] = Done(w)]
    /\ worker' = [worker EXCEPT ![w] = IdleWorker]
    /\ UNCHANGED <<now, db_call, healthVars, lifeVars, trackerVars, poolVars, thread_cache, lock_owner, task_queue,
                   dispatch_pc, delivered, requests, pool_collection, openaiVars>>

\* ------------------------------------------------------ get_available_assistant
\* Where process_question goes on when get_available_assistant has returned:
\* line 620 after the call of line 614, line 639 after the call of line 635.
AfterAcquire(w) == IF worker[w].in_handler THEN "pq_reinit" ELSE "pq_init"

\* process_question, lines 734-742: an exception outside the completion call
\* becomes an error result that keeps the assistant_id the question had.
Fail(w) ==
    [worker[w] EXCEPT !.pc = "pm_final", !.early_error = TRUE,
        !.result = Result("error", worker[w].assistant_id, NoThread)]

\* Lines 193-206: under thread_cache_lock, look the user's thread up; an
\* expired entry is deleted.  With a valid entry the lock stays held while
\* line 208 takes assistant_pool_lock.
GaCache(w) ==
    LET user_email == worker[w].message.user_email
        state == SessionState(thread_cache, user_email, now)
    IN
    /\ worker[w].pc = "ga_cache"
    /\ CanLock("thread_cache_lock", w)
    /\ thread_cache' = IF state = "expired" THEN CacheDel(thread_cache, user_email)
                       ELSE thread_cache
    /\ lock_owner' = IF state = "valid"
                     THEN [lock_owner EXCEPT !["thread_cache_lock"] = w]
                     ELSE lock_owner
    /\ worker' = [worker EXCEPT ![w].pc = IF state = "valid" THEN "ga_touch" ELSE "ga_pool",
                                ![w].session = state]
    /\ UNCHANGED <<now, db_call, healthVars, lifeVars, flush_log, faults, trackerVars, poolVars, pending_conversations,
                   dispatchVars,
                   storeVars, openaiVars>>

\* get_available_assistant, lines 210-211 (also 697-698): touch last_used.
Touch(assignments, assistant_id, t) ==
    IF assistant_id \in DOMAIN assignments
    THEN [assignments EXCEPT ![assistant_id].last_used = t]
    ELSE assignments

\* Lines 208-211: the thread is still valid; holding thread_cache_lock, take
\* assistant_pool_lock and update last_used.
GaTouch(w) ==
    LET entry == CacheGet(thread_cache, worker[w].message.user_email) IN
    /\ worker[w].pc = "ga_touch"
    /\ CanLock("assistant_pool_lock", w)
    /\ assistant_assignments' = Touch(assistant_assignments, entry.assistant_id, now)
    /\ lock_owner' = [lock_owner EXCEPT !["assistant_pool_lock"] = w]
    /\ Goto(w, "ga_return")
    /\ UNCHANGED <<now, db_call, healthVars, lifeVars, flush_log, faults, trackerVars, assistant_pool, thread_cache,
                   pending_conversations, dispatchVars, storeVars, openaiVars>>

\* Lines 213-214: leave both with blocks and return the cached assistant and
\* thread.
GaReturn(w) ==
    LET entry == CacheGet(thread_cache, worker[w].message.user_email) IN
    /\ worker[w].pc = "ga_return"
    /\ lock_owner' = Released(lock_owner, {"assistant_pool_lock", "thread_cache_lock"})
    /\ worker' = [worker EXCEPT ![w].pc = AfterAcquire(w),
                                ![w].assistant_id = entry.assistant_id,
                                ![w].thread_id = entry.thread_id,
                                ![w].new_thread_created = FALSE]
    /\ UNCHANGED <<now, db_call, healthVars, lifeVars, flush_log, faults, trackerVars, poolVars, thread_cache,
                   pending_conversations, dispatchVars, storeVars, openaiVars>>

\* Lines 216-250: under assistant_pool_lock assign the first assistant that
\* is not in use, else the least recently used one.
GaPool(w) ==
    LET a == ChooseAssistant(assistant_pool, assistant_assignments) IN
    /\ worker[w].pc = "ga_pool"
    /\ CanLock("assistant_pool_lock", w)
    /\ IF a # NoAssistant
       THEN /\ assistant_assignments' = [assistant_assignments EXCEPT
                   ![a] = AssignedSlot(worker[w].message.user_email, now)]
            /\ worker' = [worker EXCEPT ![w].pc = AfterAcquire(w),
                                        ![w].assistant_id = a,
                                        ![w].thread_id = NoThread,
                                        ![w].new_thread_created = TRUE]
       ELSE /\ Goto(w, "ga_emergency")
            /\ UNCHANGED assistant_assignments
    /\ UNCHANGED <<now, db_call, healthVars, lifeVars, flush_log, faults, trackerVars, assistant_pool, thread_cache,
                   pending_conversations, lock_owner, dispatchVars, storeVars,
                   openaiVars>>

\* initialize_assistant without an id creates an assistant; its id is new.
CanCreate == created_assistants < MaxAssistants
Create ==
    /\ created_assistants' = created_assistants + 1
    /\ openai_assistants' = openai_assistants \cup {created_assistants + 1}

\* Lines 252-262: no assistant in the pool; create one outside the pool, or
\* raise RuntimeError when that fails.
GaEmergency(w) ==
    /\ worker[w].pc = "ga_emergency"
    /\ \/ /\ CanCreate
          /\ Create
          /\ worker' = [worker EXCEPT ![w].pc = AfterAcquire(w),
                                      ![w].assistant_id = created_assistants + 1,
                                      ![w].thread_id = NoThread,
                                      ![w].new_thread_created = TRUE]
          /\ UNCHANGED faults
       \/ /\ CanFail \/ ~CanCreate
          /\ faults' = IF CanFail THEN faults + 1 ELSE faults
          /\ worker' = [worker EXCEPT ![w] = Fail(w)]
          /\ UNCHANGED <<created_assistants, openai_assistants>>
    /\ UNCHANGED <<now, db_call, healthVars, lifeVars, flush_log, trackerVars, poolVars, thread_cache, pending_conversations,
                   lock_owner, dispatchVars, storeVars, deleted_assistants>>

\* ------------------------------------------------------------ process_question
\* Lines 604-610: a termination request without an assistant id.
PqGoodbye(w) ==
    /\ worker[w].pc = "pq_goodbye"
    /\ worker' = [worker EXCEPT ![w].pc = "pm_final",
                                ![w].result = Result("success", NoAssistant, NoThread)]
    /\ UNCHANGED <<now, db_call, healthVars, lifeVars, flush_log, faults, trackerVars, poolVars, thread_cache,
                   pending_conversations,
                   lock_owner, dispatchVars, storeVars, openaiVars>>

\* release_assistant, lines 296-305: reset the slot of a known assistant.
Release(assignments, assistant_id, t) ==
    IF assistant_id \in DOMAIN assignments
    THEN [assignments EXCEPT ![assistant_id] = ReleasedSlot(t)]
    ELSE assignments

\* Lines 585-588 and 296-305: a termination request with an assistant id
\* takes assistant_pool_lock and keeps it; an assistant of the pool is
\* released, any other one is deleted (line 603).
PqByePool(w) ==
    LET a == worker[w].assistant_id IN
    /\ worker[w].pc = "pq_bye_pool"
    /\ CanLock("assistant_pool_lock", w)
    /\ lock_owner' = [lock_owner EXCEPT !["assistant_pool_lock"] = w]
    /\ IF a \in Range(assistant_pool)
       THEN /\ assistant_assignments' = Release(assistant_assignments, a, now)
            /\ Goto(w, IF a \in DOMAIN assistant_assignments
                       THEN "pq_bye_cache" ELSE "pq_bye_user")
       ELSE /\ Goto(w, "pq_delete")
            /\ UNCHANGED assistant_assignments
    /\ UNCHANGED <<now, db_call, healthVars, lifeVars, flush_log, faults, trackerVars, assistant_pool, thread_cache,
                   pending_conversations, dispatchVars, storeVars, openaiVars>>

\* release_assistant, lines 307-313: holding assistant_pool_lock, take
\* thread_cache_lock and drop the first cache entry of the assistant.
PqByeCache(w) ==
    /\ worker[w].pc = "pq_bye_cache"
    /\ CanLock("thread_cache_lock", w)
    /\ thread_cache' = ReleaseCache(thread_cache, worker[w].assistant_id)
    /\ lock_owner' = [lock_owner EXCEPT !["thread_cache_lock"] = w]
    /\ Goto(w, "pq_bye_unlock")
    /\ UNCHANGED <<now, db_call, healthVars, lifeVars, flush_log, faults, trackerVars, poolVars, pending_conversations,
                   dispatchVars, storeVars, openaiVars>>

\* release_assistant returns: thread_cache_lock is released, the caller
\* still holds assistant_pool_lock.
PqByeUnlock(w) ==
    /\ worker[w].pc = "pq_bye_unlock"
    /\ lock_owner' = Released(lock_owner, {"thread_cache_lock"})
    /\ Goto(w, "pq_bye_user")
    /\ UNCHANGED <<now, db_call, healthVars, lifeVars, flush_log, faults, trackerVars, poolVars, thread_cache,
                   pending_conversations, dispatchVars, storeVars, openaiVars>>

\* Lines 590-593: still holding assistant_pool_lock, take thread_cache_lock
\* again and drop the user's cache entry.
PqByeUser(w) ==
    /\ worker[w].pc = "pq_bye_user"
    /\ CanLock("thread_cache_lock", w)
    /\ thread_cache' = CacheDel(thread_cache, worker[w].message.user_email)
    /\ lock_owner' = [lock_owner EXCEPT !["thread_cache_lock"] = w]
    /\ Goto(w, "pq_bye_return")
    /\ UNCHANGED <<now, db_call, healthVars, lifeVars, flush_log, faults, trackerVars, poolVars, pending_conversations,
                   dispatchVars,
                   storeVars, openaiVars>>

\* Lines 595-600: leave both with blocks and return the goodbye result.
PqByeReturn(w) ==
    /\ worker[w].pc = "pq_bye_return"
    /\ lock_owner' = Released(lock_owner, {"assistant_pool_lock", "thread_cache_lock"})
    /\ worker' = [worker EXCEPT ![w].pc = "pm_final",
                                ![w].result = Result("success", NoAssistant, NoThread)]
    /\ UNCHANGED <<now, db_call, healthVars, lifeVars, flush_log, faults, trackerVars, poolVars, thread_cache,
                   pending_conversations, dispatchVars, storeVars, openaiVars>>

\* delete_assistant, lines 486-535, called holding assistant_pool_lock: the
\* DELETE request removes the assistant (or finds none), or fails.
PqDelete(w) ==
    LET a == worker[w].assistant_id IN
    /\ worker[w].pc = "pq_delete"
    /\ \E ok \in Outcomes :
          /\ Outcome(ok)
          /\ openai_assistants' = IF ok THEN openai_assistants \ {a} ELSE openai_assistants
          /\ worker' = [worker EXCEPT ![w].pc = "pm_final",
                ![w].result = IF ok THEN Result("success", NoAssistant, NoThread)
                              ELSE Result("error", a, NoThread)]
    /\ lock_owner' = Released(lock_owner, {"assistant_pool_lock"})
    /\ UNCHANGED <<now, db_call, healthVars, lifeVars, flush_log, trackerVars, poolVars, thread_cache, pending_conversations,
                   dispatchVars, storeVars, created_assistants, deleted_assistants>>

\* Where process_question goes on when the assistant is loaded (line 643).
AfterLoad(w) == IF worker[w].thread_id # NoThread THEN "pq_respond" ELSE "pq_thread"

\* Lines 617-623: initialize_assistant loads the assistant (without an id it
\* creates one, which the question's assistant_id does not name); a missing
\* assistant raises NotFoundError, anything else that fails ends the question.
PqInit(w) ==
    LET a == worker[w].assistant_id IN
    /\ worker[w].pc = "pq_init"
    /\ \/ /\ a # NoAssistant
          /\ Goto(w, IF a \in openai_assistants THEN AfterLoad(w) ELSE "pq_nf_remove")
          /\ UNCHANGED <<created_assistants, openai_assistants, faults>>
       \/ /\ a = NoAssistant
          /\ CanCreate
          /\ Create
          /\ Goto(w, AfterLoad(w))
          /\ UNCHANGED faults
       \/ /\ CanFail \/ (a = NoAssistant /\ ~CanCreate)
          /\ faults' = IF CanFail THEN faults + 1 ELSE faults
          /\ worker' = [worker EXCEPT ![w] = Fail(w)]
          /\ UNCHANGED <<created_assistants, openai_assistants>>
    /\ UNCHANGED <<now, db_call, healthVars, lifeVars, flush_log, trackerVars, poolVars, thread_cache, pending_conversations,
                   lock_owner, dispatchVars, storeVars, deleted_assistants>>

\* Lines 625-629: the assistant no longer exists; drop it from the pool.
PqNfRemove(w) ==
    LET a == worker[w].assistant_id IN
    /\ worker[w].pc = "pq_nf_remove"
    /\ CanLock("assistant_pool_lock", w)
    /\ IF a \in Range(assistant_pool)
       THEN /\ assistant_pool' = RemoveFirst(assistant_pool, a)
            /\ assistant_assignments' =
                  Restrict(assistant_assignments, DOMAIN assistant_assignments \ {a})
       ELSE UNCHANGED poolVars
    /\ Goto(w, "pq_nf_db")
    /\ UNCHANGED <<now, db_call, healthVars, lifeVars, flush_log, faults, trackerVars, thread_cache,
                   pending_conversations, lock_owner,
                   dispatchVars, storeVars, openaiVars>>

\* remove_pool_assistant: delete the membership record; a failure is logged
\* and swallowed.
RemovePoolAssistant(a) ==
    \E ok \in Outcomes :
        /\ Outcome(ok)
        /\ pool_collection' = IF ok THEN pool_collection \ {a} ELSE pool_collection

\* Lines 631-635: remove the assistant from the durable pool, then ask
\* get_available_assistant for another one.
PqNfDb(w) ==
    /\ worker[w].pc = "pq_nf_db"
    /\ RemovePoolAssistant(worker[w].assistant_id)
    /\ worker' = [worker EXCEPT ![w].pc = "ga_cache", ![w].in_handler = TRUE]
    /\ UNCHANGED <<now, db_call, healthVars, lifeVars, flush_log, trackerVars, poolVars, thread_cache, pending_conversations,
                   lock_owner, dispatchVars, requests, conversations, openaiVars>>

\* Lines 638-640: load the replacement; any failure ends the question.
PqReinit(w) ==
    /\ worker[w].pc = "pq_reinit"
    /\ \/ /\ worker[w].assistant_id \in openai_assistants
          /\ Goto(w, AfterLoad(w))
          /\ UNCHANGED faults
       \/ /\ worker[w].assistant_id \notin openai_assistants
          /\ worker' = [worker EXCEPT ![w] = Fail(w)]
          /\ UNCHANGED faults
       \/ /\ CanFail
          /\ faults' = faults + 1
          /\ worker' = [worker EXCEPT ![w] = Fail(w)]
    /\ UNCHANGED <<now, db_call, healthVars, lifeVars, flush_log, trackerVars, poolVars, thread_cache, pending_conversations,
                   lock_owner, dispatchVars, storeVars, openaiVars>>

\* update_thread_assignment, lines 274-277: record the thread in the slot.
AssignThread(assignments, assistant_id, thread_id, t) ==
    IF assistant_id \in DOMAIN assignments
    THEN [assignments EXCEPT ![assistant_id].thread_id = thread_id,
                             ![assistant_id].last_used = t]
    ELSE assignments

\* Lines 642-651 and 274-277: without a thread id create a thread (may
\* raise); its id is new, here the number of the delivery.  With a user,
\* update_thread_assignment then records it under assistant_pool_lock.
PqThread(w) ==
    LET user_email == worker[w].message.user_email IN
    /\ worker[w].pc = "pq_thread"
    /\ \/ /\ user_email # None => CanLock("assistant_pool_lock", w)
          /\ assistant_assignments' =
                IF user_email # None
                THEN AssignThread(assistant_assignments, worker[w].assistant_id,
                                  DeliveryOf(w), now)
                ELSE assistant_assignments
          /\ worker' = [worker EXCEPT
                ![w].pc = IF user_email # None THEN "pq_uta_cache" ELSE "pq_respond",
                ![w].thread_id = DeliveryOf(w),
                ![w].new_thread_created = TRUE]
          /\ UNCHANGED faults
       \/ /\ CanFail
          /\ faults' = faults + 1
          /\ worker' = [worker EXCEPT ![w] = Fail(w)]
          /\ UNCHANGED assistant_assignments
    /\ UNCHANGED <<now, db_call, healthVars, lifeVars, flush_log, trackerVars, assistant_pool, thread_cache,
                   pending_conversations, lock_owner, dispatchVars, storeVars,
                   openaiVars>>

\* update_thread_assignment, lines 280-285: the cache entry it writes.
CacheEntry(user_email, assistant_id, thread_id, t) ==
    [user_email |-> user_email, assistant_id |-> assistant_id,
     thread_id |-> thread_id, created_at |-> t]

\* update_thread_assignment, under thread_cache_lock.
PqUtaCache(w) ==
    /\ worker[w].pc = "pq_uta_cache"
    /\ CanLock("thread_cache_lock", w)
    /\ thread_cache' = CachePut(thread_cache,
          CacheEntry(worker[w].message.user_email, worker[w].assistant_id,
                     worker[w].thread_id, now))
    /\ Goto(w, "pq_respond")
    /\ UNCHANGED <<now, db_call, healthVars, lifeVars, flush_log, faults, trackerVars, poolVars, pending_conversations,
                   lock_owner,
                   dispatchVars, storeVars, openaiVars>>

\* Lines 717-720: after a failed completion call on a new thread the slot is
\* made available again.
MakeAvailable(assignments, assistant_id) ==
    IF assistant_id \in DOMAIN assignments
    THEN [assignments EXCEPT ![assistant_id].in_use = FALSE,
                             ![assistant_id].thread_id = NoThread]
    ELSE assignments

\* Lines 653-690 and 711-720: the completion call create_response, made
\* without a lock, and the lock section that follows it.  With an answer the
\* conversation document is appended to the buffer; when the call raises on
\* a new thread the slot is made available, else the error is the result.
PqRespond(w) ==
    /\ worker[w].pc = "pq_respond"
    /\ \/ /\ CanLock("pending_conversations_lock", w)
          /\ pending_conversations' =
                Append(pending_conversations, worker[w].message.request_id)
          /\ flush_log' = [flush_log EXCEPT !.appended = @ + 1]
          /\ worker' = [worker EXCEPT ![w].called = TRUE, ![w].pc = "pq_flush"]
          /\ UNCHANGED <<assistant_assignments, faults>>
       \/ /\ worker[w].new_thread_created
          /\ CanFail
          /\ faults' = faults + 1
          /\ CanLock("assistant_pool_lock", w)
          /\ assistant_assignments' =
                MakeAvailable(assistant_assignments, worker[w].assistant_id)
          /\ worker' = [worker EXCEPT ![w].called = TRUE, ![w].raised = TRUE,
                ![w].pc = "pq_err_cache"]
          /\ UNCHANGED <<pending_conversations, flush_log>>
       \/ /\ ~worker[w].new_thread_created
          /\ CanFail
          /\ faults' = faults + 1
          /\ worker' = [worker EXCEPT ![w].called = TRUE, ![w].raised = TRUE,
                ![w].pc = "pm_final",
                ![w].result = Result("error", worker[w].assistant_id, NoThread)]
          /\ UNCHANGED <<assistant_assignments, pending_conversations, flush_log>>
    /\ UNCHANGED <<now, db_call, healthVars, lifeVars, trackerVars, assistant_pool, thread_cache, lock_owner,
                   dispatchVars, storeVars, openaiVars>>

\* Line 693: maybe_flush_conversation_batch(), not forced.
PqFlush(w) ==
    /\ worker[w].pc = "pq_flush"
    /\ Flush(w, FALSE)
    /\ Goto(w, "pq_touch")
    /\ UNCHANGED <<now, db_call, healthVars, lifeVars, trackerVars, poolVars, thread_cache, lock_owner,
                   dispatchVars,
                   requests, pool_collection, openaiVars>>

\* Lines 695-710: touch last_used and return the answer with both handles.
PqTouch(w) ==
    /\ worker[w].pc = "pq_touch"
    /\ CanLock("assistant_pool_lock", w)
    /\ assistant_assignments' =
          Touch(assistant_assignments, worker[w].assistant_id, now)
    /\ worker' = [worker EXCEPT ![w].pc = "pm_final",
          ![w].result = Result("success", worker[w].assistant_id, worker[w].thread_id)]
    /\ UNCHANGED <<now, db_call, healthVars, lifeVars, flush_log, faults, trackerVars, assistant_pool, thread_cache,
                   pending_conversations, lock_owner, dispatchVars, storeVars,
                   openaiVars>>

\* Lines 722-725: the cache entry of the failed thread is dropped.
DropFailedThread(cache, user_email, thread_id) ==
    IF user_email \in CacheKeys(cache) /\ CacheGet(cache, user_email).thread_id = thread_id
    THEN CacheDel(cache, user_email)
    ELSE cache

\* The error path under thread_cache_lock, then the error result (727-732).
PqErrCache(w) ==
    /\ worker[w].pc = "pq_err_cache"
    /\ CanLock("thread_cache_lock", w)
    /\ thread_cache' = DropFailedThread(thread_cache, worker[w].message.user_email,
                                        worker[w].thread_id)
    /\ worker' = [worker EXCEPT ![w].pc = "pm_final",
          ![w].result = Result("error", worker[w].assistant_id, NoThread)]
    /\ UNCHANGED <<now, db_call, healthVars, lifeVars, flush_log, faults, trackerVars, poolVars, pending_conversations,
                   lock_owner,
                   dispatchVars, storeVars, openaiVars>>

\* ----------------------------------------------------------------- environment
\* Time passes.  The clock counts hours, a batch is processed within the
\* hour, so the clock advances between two batches.
Tick ==
    /\ dispatch_pc = "poll"
    /\ now < MaxTime
    /\ now' = now + 1
    /\ UNCHANGED <<db_call, healthVars, lifeVars, flush_log, faults, trackerVars, poolVars, thread_cache,
                   pending_conversations,
                   lock_owner, worker, dispatchVars, storeVars, openaiVars>>

\* An assistant is deleted at the completion service behind the program's
\* back.  Only initialize_assistant observes it, so a deletion during a batch
\* is the same as one before or after it.
OpenAIDelete ==
    /\ dispatch_pc = "poll"
    /\ deleted_assistants < MaxDeletes
    /\ \E a \in openai_assistants :
          openai_assistants' = openai_assistants \ {a}
    /\ deleted_assistants' = deleted_assistants + 1
    /\ UNCHANGED <<now, db_call, healthVars, lifeVars, flush_log, faults, trackerVars, poolVars, thread_cache,
                   pending_conversations,
                   lock_owner, worker, dispatchVars, storeVars, created_assistants>>

\* main(), lines 1140-1150: the loop is left (KeyboardInterrupt while polling
\* or waiting for the batch, or sys.exit of restart_processing) and finally
\* flushes what is in the buffer; the tasks of the batch keep running.
Shutdown ==
    /\ dispatch_pc \in {"poll", "wait"}
    /\ Flush(NoWorker, TRUE)
    /\ dispatch_pc' = "stopping"
    /\ UNCHANGED <<now, db_call, healthVars, lifeVars, trackerVars, poolVars, thread_cache, lock_owner,
                   worker, task_queue, futures, delivered, requests, pool_collection,
                   openaiVars>>

\* main(), line 971: leaving the with block of the executor waits for every
\* submitted task (shutdown(wait=True)); then main returns.
ExecutorExit ==
    /\ dispatch_pc = "stopping"
    /\ task_queue = <<>>
    /\ \A w \in Workers : worker[w].pc = "idle"
    /\ dispatch_pc' = "exited"
    /\ UNCHANGED <<now, db_call, healthVars, lifeVars, flush_log, faults, trackerVars, poolVars, thread_cache,
                   pending_conversations, lock_owner, worker, task_queue, futures,
                   delivered, storeVars, openaiVars>>

\* ------------------------------------------------------------- specification
\* The worker steps of process_message and what it calls.
WorkerStep(w) ==
    \/ StartTask(w)
    \/ PmClaim(w) \/ PmStatus(w) \/ PmSkip(w) \/ PmProcessing(w)
    \/ PmFinal(w) \/ PmExcept(w) \/ PmFinally(w) \/ PmFlush(w)
    \/ GaCache(w) \/ GaTouch(w) \/ GaReturn(w) \/ GaPool(w) \/ GaEmergency(w)
    \/ PqGoodbye(w) \/ PqByePool(w) \/ PqByeCache(w) \/ PqByeUnlock(w)
    \/ PqByeUser(w) \/ PqByeReturn(w) \/ PqDelete(w)
    \/ PqInit(w) \/ PqNfRemove(w) \/ PqNfDb(w) \/ PqReinit(w)
    \/ PqThread(w) \/ PqUtaCache(w) \/ PqRespond(w)
    \/ PqFlush(w) \/ PqTouch(w) \/ PqErrCache(w)

\* The request documents the producer has stored before it enqueues; the
\* processor itself never creates one.
InitialStatuses == {"pending", "completed"}
RequestStores(request_ids) ==
    UNION {[S -> {RequestDoc(st, NoResult) : st \in InitialStatuses}] : S \in SUBSET request_ids}

\* The state when initialize_assistant_pool has built a pool of n assistants
\* from an empty durable store (a creation that fails is skipped, main() goes
\* on with at least one assistant) and main() enters its loop.
InitRunning(n) ==
    /\ now = 0
    /\ active_requests = <<>>
    /\ marker_owner = [r \in RequestIds |-> NoDelivery]
    /\ assistant_pool = [i \in 1..n |-> i]
    /\ assistant_assignments = [a \in 1..n |-> NewSlot]
    /\ thread_cache = <<>>
    /\ pending_conversations = <<>>
    /\ lock_owner = [l \in LockNames |-> NoWorker]
    /\ worker = [w \in Workers |-> IdleWorker]
    /\ task_queue = <<>>
    /\ futures = <<>>
    /\ dispatch_pc = "poll"
    /\ delivered = 0
    /\ conversations = NoConversations
    /\ flush_log = NoFlushes
    /\ db_call = NoCall
    /\ consecutive_connection_errors = 0
    /\ error_count = 0
    /\ exit_code = NoExit
    /\ health_log = {}
    /\ pool_collection = 1..n
    /\ openai_assistants = 1..n
    /\ created_assistants = n
    /\ deleted_assistants = 0
    /\ faults = 0
    /\ last_cleanup_time = 0
    /\ restarts = 0

\* A batch of copies of one message, as the queue redelivers it.
Copies(messages) ==
    UNION {[1..n -> {m}] : m \in messages, n \in 1..MAX_MESSAGE_COUNT}

\* ------------------------------------------------ specification: the workers
\* The worker threads process batches of copies of a message.
Init ==
    /\ \E n \in 1..ASSISTANT_POOL_SIZE : InitRunning(n)
    /\ requests \in RequestStores({"r1"})

Next ==
    \/ ReceiveBatch(Copies(Messages({"r1"}, {"u1"})))
    \/ ApplyActions
    \/ \E w \in Workers : WorkerStep(w)
    \/ OpenAIDelete

Spec == Init /\ [][Next]_vars

\* ------------------------------------------------- the pool's maintenance
\* The ids of a set of assistants as the list the store returns them in.
RECURSIVE SeqOf(_)
SeqOf(S) == IF S = {} THEN <<>> ELSE <<Min(S)>> \o SeqOf(S \ {Min(S)})

\* initialize_assistant_pool, lines 147-174, and replenish_assistant_pool,
\* lines 399-425: create the missing assistants; a creation that raises is
\* skipped, store_pool_assistant may fail without raising and the assistant
\* is appended all the same.  `spent` are the failures of the caller so far.
AddAssistants(pool, assignments, collection, spent) ==
    LET room == MaxAssistants - created_assistants
        possible == IF AssistantsToAdd(pool) <= room THEN AssistantsToAdd(pool) ELSE room
    IN  \E created \in 0..possible :
        \E unstored \in SUBSET ((created_assistants + 1)..(created_assistants + created)) :
            LET new == (created_assistants + 1)..(created_assistants + created)
                cost == spent + (possible - created) + Cardinality(unstored)
            IN  /\ cost <= MaxFaults
                /\ faults' = cost
                /\ assistant_pool' = pool \o SeqOf(new)
                /\ assistant_assignments' =
                      [a \in DOMAIN assignments \cup new |->
                          IF a \in new THEN NewSlot ELSE assignments[a]]
                /\ pool_collection' = collection \cup (new \ unstored)
                /\ openai_assistants' = openai_assistants \cup new
                /\ created_assistants' = created_assistants + created

\* replenish_assistant_pool with every creation and every store call
\* succeeding: the pool it leaves.
Replenished(pool) ==
    pool \o [i \in 1..AssistantsToAdd(pool) |-> created_assistants + i]

\* initialize_assistant_pool and main(), lines 959-968: load the durable
\* membership (get_pool_assistants returns [] when it fails), keep the
\* assistants whose probe succeeds, remove the others from the store (a
\* failure is swallowed), create the missing ones; main() goes on when the
\* pool is not empty.
InitializePool ==
    /\ dispatch_pc = "boot"
    /\ \E read_ok \in Outcomes :
       LET existing == IF read_ok THEN pool_collection ELSE {}
           alive == existing \cap openai_assistants
       IN  \E valid \in SUBSET alive :
           \E kept \in SUBSET (existing \ valid) :
               /\ AddAssistants(SeqOf(valid), [a \in valid |-> NewSlot],
                                pool_collection \ ((existing \ valid) \ kept),
                                faults + (IF read_ok THEN 0 ELSE 1)
                                    + Cardinality(alive \ valid) + Cardinality(kept))
    /\ dispatch_pc' = IF Len(assistant_pool') > 0 THEN "poll" ELSE "exited"
    /\ last_cleanup_time' = now
    /\ UNCHANGED <<now, db_call, healthVars, restarts, flush_log, trackerVars, thread_cache, pending_conversations,
                   lock_owner, worker, task_queue, futures, delivered, requests,
                   conversations, deleted_assistants>>

\* cleanup_task: is the periodic cleanup due?
CleanupDue == now - last_cleanup_time >= CLEANUP_INTERVAL_HOURS

\* cleanup_task, lines 905-911: the cache without its expired entries.
ExpireCache(cache, t) ==
    SelectSeq(cache, LAMBDA e : ~ThreadExpired(e.created_at, t))

\* cleanup_task, lines 871-914, run by the dispatch thread between two
\* batches: flush the buffer; when the interval has passed, clean the store up
\* (no request is old enough to be deleted here; when that raises the pass
\* ends) and drop the expired cache entries.
CleanupTask ==
    /\ dispatch_pc = "poll"
    /\ CleanupDue
    /\ pending_conversations = <<>>
    /\ \E ok \in Outcomes :
          /\ Outcome(ok)
          /\ last_cleanup_time' = IF ok THEN now ELSE last_cleanup_time
          /\ thread_cache' = IF ok THEN ExpireCache(thread_cache, now) ELSE thread_cache
          /\ dispatch_pc' = IF ok THEN "cl_replenish" ELSE "poll"
    /\ UNCHANGED <<now, db_call, healthVars, restarts, flush_log, trackerVars, poolVars, pending_conversations,
                   lock_owner, worker, task_queue, futures, delivered, storeVars,
                   openaiVars>>

\* cleanup_task, line 917: replenish_assistant_pool().
CleanupReplenish ==
    /\ dispatch_pc = "cl_replenish"
    /\ CanLock("assistant_pool_lock", NoWorker)
    /\ AddAssistants(assistant_pool, assistant_assignments, pool_collection, faults)
    /\ dispatch_pc' = "cl_revalidate"
    /\ UNCHANGED <<now, db_call, healthVars, lifeVars, flush_log, trackerVars, thread_cache, pending_conversations,
                   lock_owner, worker, task_queue, futures, delivered, requests,
                   conversations, deleted_assistants>>

\* cleanup_task, lines 920-937: probe every assistant of the pool; one whose
\* probe raises (it is gone, or the probe failed) leaves the pool and its
\* membership record is removed, which may fail without raising.
CleanupRevalidate ==
    /\ dispatch_pc = "cl_revalidate"
    /\ CanLock("assistant_pool_lock", NoWorker)
    /\ \E removed \in SUBSET Range(assistant_pool) :
       \E kept \in SUBSET removed :
          /\ Range(assistant_pool) \ openai_assistants \subseteq removed
          /\ faults + Cardinality(removed \cap openai_assistants) + Cardinality(kept)
                <= MaxFaults
          /\ faults' = faults + Cardinality(removed \cap openai_assistants)
                          + Cardinality(kept)
          /\ assistant_pool' = SelectSeq(assistant_pool, LAMBDA a : a \notin removed)
          /\ assistant_assignments' =
                Restrict(assistant_assignments, DOMAIN assistant_assignments \ removed)
          /\ pool_collection' = pool_collection \ (removed \ kept)
    /\ dispatch_pc' = "poll"
    /\ UNCHANGED <<now, db_call, healthVars, lifeVars, flush_log, trackerVars, thread_cache, pending_conversations,
                   lock_owner, worker, task_queue, futures, delivered, requests,
                   conversations, openaiVars>>

\* restart_processing, lines 429-448, and the container that starts the
\* process again: the memory of the process is lost, the stores are not.
Restart ==
    /\ dispatch_pc = "poll"
    /\ restarts < MaxRestarts
    /\ Flush(NoWorker, TRUE)
    /\ restarts' = restarts + 1
    /\ active_requests' = <<>>
    /\ marker_owner' = [r \in RequestIds |-> NoDelivery]
    /\ assistant_pool' = <<>>
    /\ assistant_assignments' = <<>>
    /\ thread_cache' = <<>>
    /\ dispatch_pc' = "boot"
    /\ UNCHANGED <<now, db_call, healthVars, last_cleanup_time, lock_owner, worker, task_queue, futures,
                   delivered, requests, pool_collection, openaiVars>>

\* ------------------------------------------ specification: the pool in use
\* Callers send one message at a time: a question without handles, or a
\* termination request of the first caller, with or without the handle of an
\* assistant.  Callers are named in the order they first appear; a delivery carries a new
\* request id, and the last one may be a redelivery of the one before it.
RequestSeq == <<"r1", "r2", "r3">>
UserSeq == <<"u1", "u2", "u3">>

NextMessages ==
    LET k == (delivered % Len(RequestSeq)) + 1
        request_ids == {RequestSeq[k]} \cup
                       (IF k = Len(RequestSeq) THEN {RequestSeq[k - 1]} ELSE {})
        callers == IF delivered + 1 <= Len(UserSeq) THEN delivered + 1 ELSE Len(UserSeq)
    IN  {Message(r, q, h[1], h[2], UserSeq[j]) :
            r \in request_ids, q \in Questions, h \in Handles, j \in 1..callers}
        \ {m \in Messages(RequestIds, Users) :
              \/ ~IsTermination(m.question) /\ m.assistant_id # NoAssistant
              \/ IsTermination(m.question) /\ m.user_email # UserSeq[1]}

Singles(messages) == {<<m>> : m \in messages}

InitPool ==
    /\ \E n \in 1..ASSISTANT_POOL_SIZE : InitRunning(n)
    /\ requests = [r \in RequestIds |-> RequestDoc("pending", NoResult)]

NextPool ==
    \/ ReceiveBatch(Singles(NextMessages))
    \/ ApplyActions
    \/ WorkerStep(1)
    \/ Tick
    \/ OpenAIDelete

SpecPool == InitPool /\ [][NextPool]_vars

\* -------------------------------------------- specification: the pool's life
\* The process boots with empty stores and no caller; the dispatch thread
\* maintains the pool, and the container may start the process again.
InitLife ==
    /\ now = 0
    /\ active_requests = <<>>
    /\ marker_owner = [r \in RequestIds |-> NoDelivery]
    /\ assistant_pool = <<>>
    /\ assistant_assignments = <<>>
    /\ thread_cache = <<>>
    /\ pending_conversations = <<>>
    /\ lock_owner = [l \in LockNames |-> NoWorker]
    /\ worker = [w \in Workers |-> IdleWorker]
    /\ task_queue = <<>>
    /\ futures = <<>>
    /\ dispatch_pc = "boot"
    /\ delivered = 0
    /\ requests = [r \in RequestIds |-> RequestDoc("pending", NoResult)]
    /\ conversations = NoConversations
    /\ flush_log = NoFlushes
    /\ db_call = NoCall
    /\ consecutive_connection_errors = 0
    /\ error_count = 0
    /\ exit_code = NoExit
    /\ health_log = {}
    /\ pool_collection = {}
    /\ openai_assistants = {}
    /\ created_assistants = 0
    /\ deleted_assistants = 0
    /\ faults = 0
    /\ last_cleanup_time = 0
    /\ restarts = 0

NextLife ==
    \/ InitializePool
    \/ CleanupTask
    \/ CleanupReplenish
    \/ CleanupRevalidate
    \/ Restart
    \/ Tick
    \/ OpenAIDelete

SpecLife == InitLife /\ [][NextLife]_vars

\* ------------------------------------------- specification: the shutdown
\* The worker threads process batches of two copies of a message; the
\* dispatch loop may be left at any moment.
Pairs(messages) == {[i \in 1..2 |-> m] : m \in messages}

NextExit ==
    \/ ReceiveBatch(Pairs(Messages({"r1"}, {"u1"})))
    \/ ApplyActions
    \/ \E w \in Workers : WorkerStep(w)
    \/ OpenAIDelete
    \/ Shutdown
    \/ ExecutorExit

SpecExit == Init /\ [][NextExit]_vars

\* ------------------------------- specification: the decorated operations
\* Calls of update_request_status and get_request_status through the
\* wrapper, while the store fails some attempts with a transient error.
RequestStatuses == {"pending", "processing", "completed", "error"}

CallUpdateRequestStatus ==
    /\ dispatch_pc = "poll"
    /\ \E r \in RequestIds, status \in RequestStatuses, failing \in 0..MaxFailing :
          /\ db_call' = DbCall("update_request_status", failing)
          /\ requests' = IF Wrapper(failing).raised THEN requests
                         ELSE UpdateRequestStatus(requests, r, status, NoResult)
    /\ UNCHANGED <<now, healthVars, lifeVars, flush_log, faults, trackerVars, poolVars, thread_cache,
                   pending_conversations, lock_owner, worker, dispatchVars,
                   conversations, pool_collection, openaiVars>>

CallGetRequestStatus ==
    /\ dispatch_pc = "poll"
    /\ \E failing \in 0..MaxFailing :
          db_call' = DbCall("get_request_status", failing)
    /\ UNCHANGED <<now, healthVars, lifeVars, flush_log, faults, trackerVars, poolVars, thread_cache,
                   pending_conversations, lock_owner, worker, dispatchVars,
                   storeVars, openaiVars>>

InitRetry ==
    /\ InitRunning(1)
    /\ requests \in RequestStores(RequestIds)

NextRetry ==
    \/ CallUpdateRequestStatus
    \/ CallGetRequestStatus

SpecRetry == InitRetry /\ [][NextRetry]_vars

\* ------------------------------------------- specification: the health
\* One pass of the dispatch loop of main(), lines 988-1139, as far as it
\* decides whether the process restarts.  What the checks and the queue
\* answer is the environment's choice.
Exit(code) ==
    /\ exit_code' = code
    /\ dispatch_pc' = "exited"

StayUp ==
    /\ exit_code' = exit_code
    /\ dispatch_pc' = dispatch_pc

HealthFrame ==
    UNCHANGED <<now, db_call, health_log, lifeVars, flush_log, faults, trackerVars, poolVars, thread_cache,
                pending_conversations, lock_owner, worker, task_queue, futures,
                delivered, storeVars, openaiVars>>

\* Lines 994-1000 with check_container_health (315-391): the periodic health
\* check; a passed check resets the counter, a failed one adds one to it, and
\* the process restarts when the check failed and the counter is too high.
PeriodicHealthCheck ==
    /\ dispatch_pc = "poll"
    /\ \E healthy \in BOOLEAN :
          LET errors == IF healthy THEN 0 ELSE consecutive_connection_errors + 1 IN
          /\ consecutive_connection_errors' = errors
          /\ IF ~healthy /\ TooManyConnectionErrors(errors)
             THEN Exit(RESTART_EXIT_CODE) ELSE StayUp
    /\ UNCHANGED error_count
    /\ HealthFrame

\* Lines 1003-1007: no message for NO_MESSAGES_TIMEOUT; the health check is
\* run and the process restarts when it fails.
NoMessagesCheck ==
    /\ dispatch_pc = "poll"
    /\ \E healthy \in BOOLEAN :
          /\ consecutive_connection_errors' =
                IF healthy THEN 0 ELSE consecutive_connection_errors + 1
          /\ IF ~healthy THEN Exit(RESTART_EXIT_CODE) ELSE StayUp
    /\ UNCHANGED error_count
    /\ HealthFrame

\* Lines 1029-1032: a batch was received; the counter is reset.
MessagesReceived ==
    /\ dispatch_pc = "poll"
    /\ consecutive_connection_errors' = 0
    /\ StayUp
    /\ UNCHANGED error_count
    /\ HealthFrame

\* Lines 1109-1123: the queue raised a ServiceBusError; both counters grow,
\* and the process restarts when the consecutive errors are too many.
QueueError ==
    /\ dispatch_pc = "poll"
    /\ error_count < MaxErrorCount
    /\ error_count' = error_count + 1
    /\ consecutive_connection_errors' = consecutive_connection_errors + 1
    /\ IF TooManyConnectionErrors(consecutive_connection_errors + 1)
       THEN Exit(RESTART_EXIT_CODE) ELSE StayUp
    /\ HealthFrame

\* Lines 1125-1139: another exception while a batch is received or settled;
\* the process restarts after more than MAX_BATCH_ERRORS errors.
BatchError ==
    /\ dispatch_pc = "poll"
    /\ error_count < MaxErrorCount
    /\ error_count' = error_count + 1
    /\ IF error_count + 1 > MAX_BATCH_ERRORS THEN Exit(RESTART_EXIT_CODE) ELSE StayUp
    /\ UNCHANGED consecutive_connection_errors
    /\ HealthFrame

\* Lines 1068-1107: the hourly metrics log resets error_count.
LogMetrics ==
    /\ dispatch_pc = "poll"
    /\ error_count > 0
    /\ error_count' = 0
    /\ StayUp
    /\ UNCHANGED consecutive_connection_errors
    /\ HealthFrame

\* Lines 1142-1146: an exception that leaves the loop (one raised by an
\* except clause of the loop, such as a failing log_container_health_issue);
\* the process restarts.
FatalError ==
    /\ dispatch_pc = "poll"
    /\ Exit(RESTART_EXIT_CODE)
    /\ UNCHANGED <<consecutive_connection_errors, error_count>>
    /\ HealthFrame

\* Lines 1140-1141: KeyboardInterrupt; main returns and the process exits
\* with code 0.
KeyboardInterrupt ==
    /\ dispatch_pc = "poll"
    /\ Exit(0)
    /\ UNCHANGED <<consecutive_connection_errors, error_count>>
    /\ HealthFrame

InitHealth ==
    /\ InitRunning(1)
    /\ requests = [r \in RequestIds |-> RequestDoc("pending", NoResult)]

NextHealth ==
    \/ PeriodicHealthCheck
    \/ NoMessagesCheck
    \/ MessagesReceived
    \/ QueueError
    \/ BatchError
    \/ LogMetrics
    \/ FatalError
    \/ KeyboardInterrupt

SpecHealth == InitHealth /\ [][NextHealth]_vars

\* ------------------------------------------- specification: the monitor
\* monitor_thread_health, line 457: a marker is stuck when it is older than
\* 300 seconds; the clock counts hours.
STUCK_SECONDS == 300
SECONDS_PER_HOUR == 3600
Stuck(start_time, t) == (t - start_time) * SECONDS_PER_HOUR > STUCK_SECONDS

StuckRequests == {r \in DOMAIN active_requests : Stuck(active_requests[r], now)}

\* main(), line 1010, and monitor_thread_health, lines 450-464: at the top of
\* a pass of the dispatch loop, under active_requests_lock, the stuck markers
\* are collected and, when there are some, logged as a 'stuck_threads' event
\* (the log call may fail).
MonitorThreadHealth ==
    /\ dispatch_pc = "poll"
    /\ CanLock("active_requests_lock", NoWorker)
    /\ \E ok \in IF StuckRequests = {} THEN {TRUE} ELSE Outcomes :
          /\ Outcome(ok)
          /\ health_log' = IF ok THEN health_log \cup StuckRequests ELSE health_log
    /\ UNCHANGED <<now, db_call, consecutive_connection_errors, error_count, exit_code,
                   lifeVars, flush_log, trackerVars, poolVars, thread_cache,
                   pending_conversations, lock_owner, worker, dispatchVars, storeVars,
                   openaiVars>>

\* Time passes while the dispatch thread waits for the tasks of a batch.
TickInFlight ==
    /\ dispatch_pc = "wait"
    /\ now < MaxTime
    /\ now' = now + 1
    /\ UNCHANGED <<db_call, healthVars, lifeVars, flush_log, faults, trackerVars, poolVars,
                   thread_cache, pending_conversations, lock_owner, worker, dispatchVars,
                   storeVars, openaiVars>>

\* One caller's questions, one at a time, each with its own request id.
MonitorMessages ==
    {Message(RequestSeq[(delivered % Len(RequestSeq)) + 1], <<"show", "sales">>,
             NoAssistant, NoThread, "u1")}

\* The worker steps such a question can take while every assistant of the
\* pool exists.
QuestionStep(w) ==
    \/ StartTask(w)
    \/ PmClaim(w) \/ PmStatus(w) \/ PmProcessing(w)
    \/ PmFinal(w) \/ PmExcept(w) \/ PmFinally(w) \/ PmFlush(w)
    \/ GaCache(w) \/ GaTouch(w) \/ GaReturn(w) \/ GaPool(w)
    \/ PqInit(w) \/ PqThread(w) \/ PqUtaCache(w) \/ PqRespond(w)
    \/ PqFlush(w) \/ PqTouch(w) \/ PqErrCache(w)

NextMonitor ==
    \/ MonitorThreadHealth
    \/ ReceiveBatch(Singles(MonitorMessages))
    \/ QuestionStep(1)
    \/ ApplyActions
    \/ TickInFlight

\* The dispatch thread and the worker threads keep running.
SpecMonitor == InitPool /\ [][NextMonitor]_vars /\ WF_vars(NextMonitor)

\* ------------------------------------------- specification: the session
\* Two questions of one caller, with their own request ids and without
\* handles, are received in one batch and processed by two worker threads.
SessionBatch ==
    <<Message("r1", <<"show", "sales">>, NoAssistant, NoThread, "u1"),
      Message("r2", <<"show", "sales">>, NoAssistant, NoThread, "u1")>>

NextSession ==
    \/ ReceiveBatch({SessionBatch})
    \/ \E w \in Workers : QuestionStep(w)
    \/ ApplyActions

SpecSession == InitPool /\ [][NextSession]_vars

\* ------------------------------------------- specification: two callers
\* Two questions of two callers, with their own request ids and without
\* handles, are received in one batch and processed by two worker threads.
CallersBatch ==
    <<Message("r1", <<"show", "sales">>, NoAssistant, NoThread, "u1"),
      Message("r2", <<"show", "sales">>, NoAssistant, NoThread, "u2")>>

\* The worker steps of a question whose caller has no session entry.
NewCallerStep(w) ==
    \/ StartTask(w)
    \/ PmClaim(w) \/ PmStatus(w) \/ PmProcessing(w)
    \/ PmFinal(w) \/ PmExcept(w) \/ PmFinally(w) \/ PmFlush(w)
    \/ GaCache(w) \/ GaPool(w)
    \/ PqInit(w) \/ PqThread(w) \/ PqUtaCache(w) \/ PqRespond(w)
    \/ PqFlush(w) \/ PqTouch(w) \/ PqErrCache(w)

NextCallers ==
    \/ ReceiveBatch({CallersBatch})
    \/ \E w \in Workers : NewCallerStep(w)
    \/ ApplyActions

SpecCallers == InitPool /\ [][NextCallers]_vars

\* ------------------------------------------- specification: the two locks
\* A caller asks a question; then a second question of the caller and a
\* termination request that carries the handle of an assistant are received
\* in one batch and processed by two worker threads.
LockBatches ==
    IF delivered = 0
    THEN {<<Message("r1", <<"show", "sales">>, NoAssistant, NoThread, "u1")>>}
    ELSE {<<Message("r2", <<"show", "sales">>, NoAssistant, NoThread, "u1"),
            Message("r3", <<"bye">>, a, 1, "u1")>> : a \in 1..ASSISTANT_POOL_SIZE}

\* The worker steps of these questions and termination requests.
LockStep(w) ==
    \/ QuestionStep(w)
    \/ PqByePool(w) \/ PqByeCache(w) \/ PqByeUnlock(w) \/ PqByeUser(w)
    \/ PqByeReturn(w) \/ PqDelete(w)

NextLocks ==
    \/ ReceiveBatch(LockBatches)
    \/ \E w \in Workers : LockStep(w)
    \/ ApplyActions

SpecLocks == InitPool /\ [][NextLocks]_vars

\* ------------------------------------------- specification: the upkeep
\* Two callers ask questions, one message at a time, while assistants
\* disappear at the completion service and the dispatch thread runs the
\* periodic cleanup between two batches.
UpkeepMessages ==
    {Message(RequestSeq[(delivered % Len(RequestSeq)) + 1], <<"show", "sales">>,
             NoAssistant, NoThread, u) : u \in {"u1", "u2"}}

\* The worker steps of such a question, not-found eviction included.
UpkeepStep(w) ==
    \/ QuestionStep(w)
    \/ GaEmergency(w) \/ PqNfRemove(w) \/ PqNfDb(w) \/ PqReinit(w)

NextUpkeep ==
    \/ ReceiveBatch(Singles(UpkeepMessages))
    \/ UpkeepStep(1)
    \/ ApplyActions
    \/ Tick
    \/ OpenAIDelete
    \/ CleanupTask \/ CleanupReplenish \/ CleanupRevalidate

SpecUpkeep == InitPool /\ [][NextUpkeep]_vars

\* The same with worker threads that are scheduled fairly and a dispatch
\* thread that keeps running.
SpecLocksFair ==
    /\ SpecLocks
    /\ \A w \in Workers : WF_vars(LockStep(w))
    /\ WF_vars(ApplyActions)

\* ------------------------------------------- specification: the buffer
\* Records are appended to pending_conversations and the buffer is flushed
\* with force, with no task running in between: the flush as a function of
\* the buffer and of what the store does.
AddConversation ==
    /\ dispatch_pc = "poll"
    /\ flush_log.appended < MaxRecords
    /\ CanLock("pending_conversations_lock", NoWorker)
    /\ \E r \in RequestIds :
          pending_conversations' = Append(pending_conversations, r)
    /\ flush_log' = [flush_log EXCEPT !.appended = @ + 1]
    /\ UNCHANGED <<now, db_call, healthVars, lifeVars, faults, trackerVars, poolVars, thread_cache, lock_owner,
                   worker, dispatchVars, storeVars, openaiVars>>

ForcedFlush ==
    /\ dispatch_pc = "poll"
    /\ pending_conversations # <<>>
    /\ Flush(NoWorker, TRUE)
    /\ UNCHANGED <<now, db_call, healthVars, lifeVars, trackerVars, poolVars, thread_cache, lock_owner,
                   worker, dispatchVars, requests, pool_collection, openaiVars>>

InitFlush ==
    /\ InitRunning(1)
    /\ requests = [r \in RequestIds |-> RequestDoc("pending", NoResult)]

NextFlush ==
    \/ AddConversation
    \/ ForcedFlush

SpecFlush == InitFlush /\ [][NextFlush]_vars

\* ------------------------------------------------------- properties, C1 - C4
\* What main() sees of a batch when wait() has returned.
Calls == Cardinality({i \in 1..Len(futures) : futures[i].called})
AllComplete == \A i \in 1..Len(futures) : futures[i].action = "complete"
NoStoreError == \A i \in 1..Len(futures) : ~futures[i].store_error
NoEarlyError == \A i \in 1..Len(futures) : ~futures[i].early_error

\* A well-formed message: its body decodes and has a request_id and a question.
WellFormed(m) == m.decodes /\ m.request_id # None /\ m.question # <<>>

\* A batch of two copies of one well-formed message has been processed.
TwoCopiesDone ==
    /\ BatchDone
    /\ Len(futures) = 2
    /\ futures[1].message = futures[2].message
    /\ WellFormed(futures[1].message)

HoldsClaim(w, r) ==
    /\ worker[w].pc # "idle"
    /\ worker[w].processing_started
    /\ ~worker[w].released
    /\ worker[w].pc \notin {"pm_flush"}
    /\ worker[w].message.request_id = r

\* C2: for each request_id at most one worker is between its claim and its
\* release of the claim.
C2_OneClaim ==
    \A r \in RequestIds : Cardinality({w \in Workers : HoldsClaim(w, r)}) <= 1

\* The future of the i-th task of the batch is done.
IsDone(i) == futures[i].action # "none"
DeliveryAt(i) == delivered - Len(futures) + i
WasFinal(i) == AlreadyProcessed(futures[i].start_status)
MarkerGone(i) == \A r \in RequestIds : marker_owner[r] # DeliveryAt(i)

\* C3 as stated: a message delivered when the persisted status is 'completed'
\* or 'error' returns 'complete', invokes no completion, writes no
\* 'processing' and leaves no marker.
C3_AsStated ==
    \A i \in 1..Len(futures) : (IsDone(i) /\ WasFinal(i)) =>
        /\ futures[i].action = "complete"
        /\ ~futures[i].called /\ ~futures[i].wrote_processing
        /\ MarkerGone(i)

\* C3, amended: such a message never invokes the completion service, never
\* writes 'processing' and leaves no marker; it returns 'complete' unless the
\* status read raises.
C3_ShortCircuit ==
    \A i \in 1..Len(futures) : (IsDone(i) /\ WasFinal(i)) =>
        /\ ~futures[i].store_error => futures[i].action = "complete"
        /\ ~futures[i].called /\ ~futures[i].wrote_processing
        /\ MarkerGone(i)

\* A redelivered message of a completed request was short-circuited.
C3_Witness ==
    \E i \in 1..Len(futures) :
        /\ IsDone(i) /\ WasFinal(i) /\ ~futures[i].store_error
        /\ futures[i].action = "complete"
        /\ i = 1

\* C4: every marker in active_requests was inserted by a task that is still
\* running: when process_message ends, on any exit path, the marker it
\* inserted is gone.
C4_MarkerReleased ==
    /\ DOMAIN active_requests = {r \in RequestIds : marker_owner[r] # NoDelivery}
    /\ \A r \in RequestIds : marker_owner[r] # NoDelivery =>
          \E w \in Workers : worker[w].pc # "idle" /\ DeliveryOf(w) = marker_owner[r]

\* A task whose exception handler failed on its store call has ended; its
\* marker is gone.
C4_Witness ==
    \E i \in 1..Len(futures) :
        /\ futures[i].action = "raise"
        /\ futures[i].store_error
        /\ futures[i].message.request_id \notin DOMAIN active_requests

\* ------------------------------------------------------ properties, C5 - C10
\* C5: for every caller at most one slot of assistant_assignments carries the
\* caller's user_email, whatever the slot's in_use flag.
C5_OneSlotPerCaller ==
    \A a, b \in DOMAIN assistant_assignments :
        (a # b /\ assistant_assignments[a].user_email # None) =>
            assistant_assignments[a].user_email # assistant_assignments[b].user_email

\* C6: no two slots that are both in use carry the same user_email.
C6_ExclusiveInUse ==
    \A a, b \in DOMAIN assistant_assignments :
        (a # b /\ assistant_assignments[a].in_use /\ assistant_assignments[b].in_use) =>
            assistant_assignments[a].user_email # assistant_assignments[b].user_email

\* C7: whenever the dispatch thread may call replenish_assistant_pool, a call
\* in which every creation succeeds leaves ASSISTANT_POOL_SIZE assistants in
\* the pool.
C7_ReplenishFills ==
    dispatch_pc \in {"poll", "cl_replenish"} =>
        Len(Replenished(assistant_pool)) = ASSISTANT_POOL_SIZE

\* The step of worker w that leaves the pool section of
\* get_available_assistant, and the slot a new assignment writes.
LeavesPool(w) == worker[w].pc = "ga_pool" /\ worker'[w].pc # "ga_pool"
Assigned(w) ==
    [user_email |-> worker[w].message.user_email, thread_id |-> NoThread,
     last_used |-> now, in_use |-> TRUE]
AllInUse ==
    /\ assistant_pool # <<>>
    /\ \A a \in Range(assistant_pool) : assistant_assignments[a].in_use
TakesNew(w, a) ==
    /\ worker'[w].assistant_id = a
    /\ worker'[w].thread_id = NoThread
    /\ worker'[w].new_thread_created
    /\ assistant_assignments' = [assistant_assignments EXCEPT ![a] = Assigned(w)]

\* Scenario A at its third acquisition: the pool is at capacity, the first
\* caller holds its first assistant, the second caller the other one, and a
\* third caller asks.
ScenarioA(w) ==
    /\ delivered = 3
    /\ Len(assistant_pool) = ASSISTANT_POOL_SIZE
    /\ AllInUse
    /\ assistant_assignments[assistant_pool[1]].user_email = UserSeq[1]
    /\ \A i \in 2..Len(assistant_pool) :
          assistant_assignments[assistant_pool[i]].user_email = UserSeq[2]
    /\ worker[w].message.user_email = UserSeq[3]

\* C8: when every slot of the pool is in use, an acquisition by a caller
\* without a valid session reassigns a slot with the smallest last_used: the
\* slot gets the caller's user_email, no thread_id, last_used now, and the
\* caller gets it as a new thread; in scenario A the third caller gets the
\* first caller's slot.
C8_LeastRecentlyUsed ==
    [][\A w \in Workers : (LeavesPool(w) /\ AllInUse) =>
          /\ \E a \in Range(assistant_pool) :
                /\ \A b \in Range(assistant_pool) :
                      assistant_assignments[a].last_used
                          <= assistant_assignments[b].last_used
                /\ TakesNew(w, a)
          /\ ScenarioA(w) => worker'[w].assistant_id = assistant_pool[1]]_vars

\* The third caller of scenario A holds the assistant that answered the first
\* caller's request.
C8_Witness ==
    /\ delivered = 3
    /\ worker[1].pc = "pq_init"
    /\ worker[1].message.user_email = UserSeq[3]
    /\ Len(assistant_pool) = ASSISTANT_POOL_SIZE
    /\ worker[1].assistant_id = assistant_pool[1]
    /\ assistant_assignments[assistant_pool[1]].user_email = UserSeq[3]
    /\ assistant_assignments[assistant_pool[2]].user_email = UserSeq[2]
    /\ assistant_assignments[assistant_pool[2]].in_use
    /\ requests["r1"].status = "completed"
    /\ requests["r1"].result.assistant_id = assistant_pool[1]
    /\ requests["r2"].status = "completed"
    /\ requests["r2"].result.assistant_id = assistant_pool[2]

\* C9: when a slot of the pool is not in use, an acquisition by a caller
\* without a valid session returns such a slot as a new thread without a
\* thread id, sets it to (caller, no thread, now, in use) and changes no
\* other slot.
C9_FreeSlotFirst ==
    [][\A w \in Workers :
          (LeavesPool(w) /\ \E f \in Range(assistant_pool) :
                               ~assistant_assignments[f].in_use) =>
              \E a \in Range(assistant_pool) :
                  /\ ~assistant_assignments[a].in_use
                  /\ TakesNew(w, a)]_vars

\* A second caller got the free slot while the first caller's slot is in use.
C9_Witness ==
    /\ worker[1].pc = "pq_init"
    /\ worker[1].new_thread_created
    /\ Len(assistant_pool) = 2
    /\ worker[1].assistant_id = assistant_pool[2]
    /\ assistant_assignments[assistant_pool[2]] =
          [user_email |-> UserSeq[2], thread_id |-> NoThread, last_used |-> now,
           in_use |-> TRUE]
    /\ assistant_assignments[assistant_pool[1]].in_use
    /\ assistant_assignments[assistant_pool[1]].user_email = UserSeq[1]
    /\ assistant_assignments[assistant_pool[1]].thread_id # NoThread

\* The caller of worker w has a session entry that is not older than the
\* lifetime.
HasSession(w) ==
    /\ worker[w].message.user_email \in CacheKeys(thread_cache)
    /\ now - CacheGet(thread_cache, worker[w].message.user_email).created_at
          <= THREAD_LIFETIME_SECONDS

\* C10: a caller whose session entry exists and is not older than the
\* lifetime gets the assistant and the thread of the entry, not as a new
\* thread; the acquisition changes no slot but the last_used of that
\* assistant's slot, and it leaves the cache alone.
C10_SessionAffinity ==
    [][\A w \in Workers :
          /\ (worker[w].pc = "ga_cache" /\ worker'[w].pc # "ga_cache" /\ HasSession(w)) =>
                /\ worker'[w].pc = "ga_touch"
                /\ UNCHANGED <<thread_cache, assistant_assignments>>
          /\ (worker[w].pc = "ga_return" /\ worker'[w].pc # "ga_return") =>
                LET entry == CacheGet(thread_cache, worker[w].message.user_email) IN
                /\ HasSession(w)
                /\ worker'[w].assistant_id = entry.assistant_id
                /\ worker'[w].thread_id = entry.thread_id
                /\ ~worker'[w].new_thread_created
                /\ UNCHANGED <<thread_cache, assistant_assignments>>
          /\ (worker[w].pc = "ga_touch" /\ worker'[w].pc # "ga_touch") =>
                LET entry == CacheGet(thread_cache, worker[w].message.user_email) IN
                /\ HasSession(w)
                /\ worker'[w].pc = "ga_return"
                /\ UNCHANGED thread_cache
                /\ DOMAIN assistant_assignments' = DOMAIN assistant_assignments
                /\ \A a \in DOMAIN assistant_assignments :
                      /\ assistant_assignments'[a].user_email =
                            assistant_assignments[a].user_email
                      /\ assistant_assignments'[a].thread_id =
                            assistant_assignments[a].thread_id
                      /\ assistant_assignments'[a].in_use =
                            assistant_assignments[a].in_use
                      /\ a # entry.assistant_id =>
                            assistant_assignments'[a] = assistant_assignments[a]]_vars

\* A caller got the assistant and the thread of a session entry that is
\* exactly as old as the lifetime.
C10_Witness ==
    /\ worker[1].pc = "pq_init"
    /\ ~worker[1].new_thread_created
    /\ worker[1].message.user_email \in CacheKeys(thread_cache)
    /\ LET entry == CacheGet(thread_cache, worker[1].message.user_email) IN
          /\ now - entry.created_at = THREAD_LIFETIME_SECONDS
          /\ worker[1].assistant_id = entry.assistant_id
          /\ worker[1].thread_id = entry.thread_id
          /\ entry.thread_id # NoThread
          /\ assistant_assignments[entry.assistant_id].last_used = now

\* ----------------------------------------------------- properties, C11 - C20
\* The caller of worker w has a session entry older than the lifetime.
HasExpiredSession(w) ==
    /\ worker[w].message.user_email \in CacheKeys(thread_cache)
    /\ now - CacheGet(thread_cache, worker[w].message.user_email).created_at
          > THREAD_LIFETIME_SECONDS

\* The cache step of get_available_assistant with an expired entry deletes
\* the entry and goes on to the pool section.
ExpiryDeletes(w) ==
    (worker[w].pc = "ga_cache" /\ worker'[w].pc # "ga_cache" /\ HasExpiredSession(w)) =>
        /\ worker[w].message.user_email \notin CacheKeys(thread_cache')
        /\ worker'[w].pc = "ga_pool"
        /\ worker'[w].session = "expired"

\* C11 as stated: an acquisition for a caller whose session entry is older
\* than the lifetime deletes the entry and returns a slot of the pool, no
\* thread id, as a new thread.
C11_AsStated ==
    [][\A w \in Workers :
          /\ ExpiryDeletes(w)
          /\ (LeavesPool(w) /\ worker[w].session = "expired") =>
                \E a \in Range(assistant_pool) : TakesNew(w, a)]_vars

\* C11, amended: such an acquisition deletes the entry and never returns
\* the old thread; with a pool that is not empty it returns a slot of the
\* pool, no thread id, as a new thread; with an empty pool it goes on to
\* the emergency creation, which returns a new assistant outside the pool,
\* no thread id, as a new thread, or fails the question.
C11_ExpiredSession ==
    [][\A w \in Workers :
          /\ ExpiryDeletes(w)
          /\ (LeavesPool(w) /\ worker[w].session = "expired") =>
                IF assistant_pool # <<>>
                THEN \E a \in Range(assistant_pool) : TakesNew(w, a)
                ELSE /\ worker'[w].pc = "ga_emergency"
                     /\ UNCHANGED assistant_assignments
          /\ (worker[w].pc = "ga_emergency" /\ worker'[w].pc # "ga_emergency"
                /\ worker[w].session = "expired") =>
                \/ /\ worker'[w].assistant_id \notin Range(assistant_pool)
                   /\ worker'[w].assistant_id \notin openai_assistants
                   /\ worker'[w].assistant_id \in openai_assistants'
                   /\ worker'[w].thread_id = NoThread
                   /\ worker'[w].new_thread_created
                \/ /\ worker'[w].pc = "pm_final"
                   /\ worker'[w].result.status = "error"]_vars

\* A caller whose session had expired holds a newly assigned slot and no
\* thread yet; its cache entry is gone.
C11_Witness ==
    /\ worker[1].pc = "pq_init"
    /\ worker[1].session = "expired"
    /\ worker[1].assistant_id \in Range(assistant_pool)
    /\ worker[1].thread_id = NoThread
    /\ worker[1].new_thread_created
    /\ worker[1].message.user_email \notin CacheKeys(thread_cache)
    /\ assistant_assignments[worker[1].assistant_id].user_email =
          worker[1].message.user_email

\* The message of worker w decodes and lacks a required field.
Malformed(m) == m.decodes /\ (m.request_id = None \/ m.question = <<>>)

\* C12: while a worker processes a message that lacks 'question' or
\* 'request_id', none of its steps writes a request status, inserts a marker,
\* touches a slot or the cache, or invokes the completion service, and the
\* message ends with disposition 'complete'.
C12_MissingFields ==
    [][\A w \in Workers :
          (worker[w].pc # "idle" /\ Malformed(worker[w].message)
              /\ worker'[w] # worker[w]) =>
              /\ UNCHANGED <<requests, active_requests, marker_owner, assistant_pool,
                             assistant_assignments, thread_cache, faults>>
              /\ ~worker'[w].called
              /\ ~worker'[w].wrote_processing
              /\ ~worker'[w].processing_started
              /\ worker'[w].pc = "idle" =>
                    futures'[worker[w].task].action = "complete"]_vars

\* A message with a request_id and without a question was completed; the
\* status of its request is what it was.
C12_Witness ==
    \E i \in 1..Len(futures) :
        /\ IsDone(i)
        /\ futures[i].message.question = <<>>
        /\ futures[i].message.request_id = "r1"
        /\ futures[i].action = "complete"
        /\ "r1" \in DOMAIN requests
        /\ requests["r1"].status = "pending"

\* C13: a message whose body does not decode ends with disposition
\* 'complete'.
C13_PoisonAcknowledged ==
    \A i \in 1..Len(futures) :
        (IsDone(i) /\ ~futures[i].message.decodes) => futures[i].action = "complete"

\* C14: when loading the chosen assistant raises not-found, the acquisition
\* made by the handler returns a different assistant, the replacement, and
\* the stale one has left the pool.
C14_ReplacementAcquired ==
    [][\A w \in Workers :
          (worker[w].in_handler /\ worker[w].pc # "pq_reinit"
              /\ worker'[w].pc = "pq_reinit") =>
              /\ worker[w].assistant_id \notin Range(assistant_pool)
              /\ worker'[w].assistant_id # worker[w].assistant_id]_vars

\* C15: after a forced flush the buffer is empty and the records written by
\* the bulk write, those written one by one and those dropped add up to the
\* records appended.
C15_FlushTotality ==
    pending_conversations = <<>> =>
        flush_log.bulk + flush_log.single + flush_log.dropped = flush_log.appended

\* C16: when no process_message invocation is running the buffer is empty
\* (every invocation ends with a forced flush), the process exits with an
\* empty buffer and no running task, and every record taken from the buffer
\* was written or logged as dropped.
C16_FlushedAtExit ==
    /\ (\A w \in Workers : worker[w].pc = "idle") => pending_conversations = <<>>
    /\ dispatch_pc = "exited" =>
          /\ pending_conversations = <<>>
          /\ \A w \in Workers : worker[w].pc = "idle"
    /\ flush_log.appended - Len(pending_conversations)
          <= flush_log.bulk + flush_log.single + flush_log.dropped
    /\ Len(pending_conversations) <= flush_log.appended

\* The process has exited after a task called the completion service and
\* appended its record: the record was handed to a write.
C16_Witness ==
    /\ dispatch_pc = "exited"
    /\ flush_log.appended = 1
    /\ \E i \in 1..Len(futures) : futures[i].action # None /\ futures[i].called
    /\ flush_log.bulk + flush_log.single + flush_log.dropped >= 1
    /\ pending_conversations = <<>>

\* C17: a store operation whose attempts fail with a transient connectivity
\* error is attempted again, up to MAX_TRIES attempts; when fewer attempts
\* fail than the cap, the caller observes success.
C17_RetriedWithinCap ==
    (db_call.op # "none" /\ db_call.failing < MAX_TRIES) =>
        /\ ~db_call.raised
        /\ db_call.attempts = db_call.failing + 1

\* C18: the outcomes of a batch are applied in one step of the dispatch
\* thread, taken only when every task of the batch has finished and recorded
\* its action; no worker step settles a message, and no batch is received
\* while outcomes of the previous one are still to be applied.
C18_DispatchSettles ==
    [][/\ (futures # <<>> /\ futures' = <<>>) =>
            /\ dispatch_pc = "wait" /\ dispatch_pc' = "poll"
            /\ task_queue = <<>>
            /\ \A w \in Workers : worker[w].pc = "idle"
            /\ \A i \in 1..Len(futures) : IsDone(i)
            /\ worker' = worker
       /\ worker' # worker => Len(futures') = Len(futures)
       /\ delivered' # delivered =>
            /\ futures = <<>>
            /\ \A w \in Workers : worker[w].pc = "idle"]_vars

\* The outcomes of a batch of MAX_MESSAGE_COUNT messages have been applied.
C18_Witness ==
    /\ dispatch_pc = "poll"
    /\ delivered = MAX_MESSAGE_COUNT
    /\ futures = <<>>
    /\ \A w \in Workers : worker[w].pc = "idle"

\* The completion call of the task of future i raised.
Raised(i) == IsDone(i) /\ futures[i].raised

\* C19 as stated: when the completion call raises for r, the status of r
\* becomes 'error' and the message is completed.
C19_AsStated ==
    \A i \in 1..Len(futures) : Raised(i) =>
        /\ futures[i].action = "complete"
        /\ StatusOf(requests, futures[i].message.request_id) = "error"

\* C19, amended: when the completion call raises for r and no status read or
\* write of the invocation fails, the message is completed and, when r has a
\* request document, its status is 'error'; the call is not made again in the
\* invocation; a task that found r in status 'error' never makes the call.
C19_ErrorRecorded ==
    /\ [](\A i \in 1..Len(futures) : (Raised(i) /\ ~futures[i].store_error) =>
            /\ futures[i].action = "complete"
            /\ futures[i].start_status # None =>
                  StatusOf(requests, futures[i].message.request_id) = "error")
    /\ [](\A w \in Workers :
            (worker[w].pc # "idle" /\ worker[w].start_status = "error") => ~worker[w].called)
    /\ [][\A w \in Workers : worker[w].raised => worker'[w].pc # "pq_respond"]_vars

\* The completion call raised, the status 'error' was recorded and the
\* message completed; a later copy, delivered in status 'error', is running.
C19_Witness ==
    /\ \E i \in 1..Len(futures) :
          /\ Raised(i) /\ ~futures[i].store_error
          /\ futures[i].action = "complete"
          /\ StatusOf(requests, futures[i].message.request_id) = "error"
    /\ \E w \in Workers : worker[w].pc = "pm_skip" /\ worker[w].start_status = "error"

\* C20: when the completion call has raised, the slot used for the request
\* (an assistant with an assignment record) is a pool member and not in use,
\* whether the thread was created in this invocation or came from the
\* caller's session entry.
C20_SlotReleased ==
    \A w \in Workers :
        ( /\ worker[w].raised
          /\ worker[w].pc = "pm_final"
          /\ worker[w].new_thread_created \/ worker[w].session = "valid"
          /\ worker[w].assistant_id \in DOMAIN assistant_assignments ) =>
            /\ worker[w].assistant_id \in Range(assistant_pool)
            /\ ~assistant_assignments[worker[w].assistant_id].in_use

\* The task of future i met an exception after its request_id was parsed: a
\* status read or write of the request store raised.
HandlerRan(i) ==
    IsDone(i) /\ futures[i].store_error /\ futures[i].message.request_id # None

\* C21 as stated: after such an exception the message is abandoned and the
\* persisted status of the request is 'error'.
C21_AsStated ==
    \A i \in 1..Len(futures) : HandlerRan(i) =>
        /\ Disposition(futures[i].action) = "abandon"
        /\ StatusOf(requests, futures[i].message.request_id) = "error"

\* C21, amended: after such an exception the message is abandoned; the
\* persisted status is 'error' when the handler's own status write succeeded
\* and the request has a document.
C21_HandlerRecords ==
    \A i \in 1..Len(futures) : HandlerRan(i) =>
        /\ Disposition(futures[i].action) = "abandon"
        /\ (futures[i].action = "abandon" /\ futures[i].start_status # None) =>
              StatusOf(requests, futures[i].message.request_id) = "error"

\* A status write raised, the handler recorded 'error' and returned 'abandon'.
C21_Witness ==
    \E i \in 1..Len(futures) :
        /\ HandlerRan(i)
        /\ futures[i].action = "abandon"
        /\ futures[i].start_status = "pending"
        /\ StatusOf(requests, futures[i].message.request_id) = "error"

\* C22: every process_message invocation ends by returning 'complete' or
\* 'abandon'; none ends by raising.
C22_NeverRaises ==
    \A i \in 1..Len(futures) : IsDone(i) => futures[i].action \in {"complete", "abandon"}

\* The structure locks thread w holds.
LocksHeld(w) == {l \in LockNames : lock_owner[l] = w}

\* C24: no thread holds more than one of the four structure locks at the
\* same time.
C24_OneLockAtATime ==
    \A w \in Workers : Cardinality(LocksHeld(w)) <= 1

\* C23: a worker that is executing the completion call create_response holds
\* none of the four structure locks.
C23_CallWithoutLock ==
    \A w \in Workers : worker[w].pc = "pq_respond" => LocksHeld(w) = {}

\* A worker is at the completion call with the thread of its caller's
\* session, which it read under two locks, and holds no lock.
C23_Witness ==
    \E w \in Workers :
        /\ worker[w].pc = "pq_respond"
        /\ worker[w].session = "valid"
        /\ LocksHeld(w) = {}

\* C25: the process exits with the restart code only when the consecutive
\* connection errors exceed MAX_CONNECTION_ERRORS, and a keyboard interrupt
\* exits with code 0.
C25_RestartOnlyWhenSustained ==
    exit_code = RESTART_EXIT_CODE =>
        consecutive_connection_errors > MAX_CONNECTION_ERRORS

\* C26: every assistant of the in-memory pool has a membership record in the
\* durable store.
C26_PoolRecorded ==
    Range(assistant_pool) \subseteq pool_collection

\* C27: a request whose marker is older than the stuck threshold is
\* eventually named by a 'stuck_threads' health event, recorded while the
\* marker is in active_requests.
C27_StuckObserved ==
    \A r \in RequestIds :
        (r \in StuckRequests) ~> (r \in health_log)

\* C28: when a termination request of a caller has been processed (without a
\* failure, and not skipped as processed before), the session cache has no
\* entry for that caller.
C28_SessionEnded ==
    \A i \in 1..Len(futures) :
        ( /\ IsDone(i) /\ WellFormed(futures[i].message)
          /\ IsTermination(futures[i].message.question)
          /\ futures[i].action = "complete"
          /\ ~futures[i].store_error /\ ~futures[i].early_error /\ ~WasFinal(i) ) =>
            futures[i].message.user_email \notin CacheKeys(thread_cache)

\* The task of future i processed a question without handles successfully:
\* the completion call answered and no status read or write failed.
Succeeded(i) ==
    /\ IsDone(i)
    /\ futures[i].message.assistant_id = NoAssistant
    /\ futures[i].message.thread_id = NoThread
    /\ futures[i].called
    /\ futures[i].result.status = "success"
    /\ ~futures[i].store_error

\* C29: after such a request the persisted status is 'completed' with the
\* result, the message is completed, and the caller's session entry holds the
\* assistant and the thread the result reports.
C29_SessionMatchesResult ==
    \A i \in 1..Len(futures) : Succeeded(i) =>
        LET m == futures[i].message IN
        /\ requests[m.request_id] = RequestDoc("completed", futures[i].result)
        /\ futures[i].action = "complete"
        /\ m.user_email \in CacheKeys(thread_cache)
        /\ CacheGet(thread_cache, m.user_email).assistant_id = futures[i].result.assistant_id
        /\ CacheGet(thread_cache, m.user_email).thread_id = futures[i].result.thread_id

\* C30: a worker leaves the section under assistant_pool_lock for the
\* emergency creation if and only if the pool is empty, the emergency
\* creation is entered from nowhere else, and the step that creates the
\* one-off assistant changes neither assistant_pool, assistant_assignments
\* nor the stored pool membership.
C30_EmergencyOnlyWhenEmpty ==
    [][\A w \in Workers :
          /\ (worker[w].pc = "ga_pool" /\ worker'[w].pc # "ga_pool") =>
                (worker'[w].pc = "ga_emergency" <=> assistant_pool = <<>>)
          /\ (worker[w].pc # "ga_emergency" /\ worker'[w].pc = "ga_emergency") =>
                (worker[w].pc = "ga_pool" /\ assistant_pool = <<>>)
          /\ (worker[w].pc = "ga_emergency" /\ worker'[w] # worker[w]) =>
                UNCHANGED <<assistant_pool, assistant_assignments, pool_collection>>]_vars

\* A worker got the assistant the emergency path created last: the pool is
\* empty and the assistant is outside it.
C30_Witness ==
    \E w \in Workers :
        /\ worker[w].pc = "pq_init"
        /\ worker[w].message.assistant_id = NoAssistant
        /\ worker[w].new_thread_created
        /\ worker[w].assistant_id = created_assistants
        /\ worker[w].assistant_id \notin Range(assistant_pool)
        /\ assistant_pool = <<>>

\* ----------------------------------------------------- properties, C31 - C40
\* The slots of the pool that are not in use.
FreeSlots == {a \in Range(assistant_pool) : ~assistant_assignments[a].in_use}

\* Worker w got its assistant from the pool section of
\* get_available_assistant and is between that return and the end of the
\* completion call.
HoldsNewSlot(w) ==
    /\ worker[w].pc \in {"pq_init", "pq_thread", "pq_uta_cache", "pq_respond"}
    /\ worker[w].session = "miss"
    /\ worker[w].new_thread_created
    /\ worker[w].assistant_id \in Range(assistant_pool)

\* C31: when a worker leaves the pool section of get_available_assistant
\* while at least two slots are not in use, the slot it returns was not in
\* use, is marked in use in the same step, and is the slot of no other
\* worker that holds a newly assigned slot.
C31_DistinctSlots ==
    [][\A w \in Workers :
          (worker[w].pc = "ga_pool" /\ worker'[w].pc # "ga_pool"
             /\ Cardinality(FreeSlots) >= 2) =>
              LET a == worker'[w].assistant_id IN
              /\ a \in FreeSlots
              /\ assistant_assignments'[a].in_use
              /\ \A v \in Workers \ {w} :
                    HoldsNewSlot(v) => worker[v].assistant_id # a
              /\ \A v \in Workers \ {w} :
                    worker'[v].pc = "ga_pool" =>
                        ChooseAssistant(assistant_pool', assistant_assignments') # a]_vars

\* Two workers hold newly assigned slots of two callers at the same time.
C31_Witness ==
    \E w, v \in Workers :
        /\ w # v
        /\ HoldsNewSlot(w) /\ HoldsNewSlot(v)
        /\ worker[w].message.user_email # worker[v].message.user_email
        /\ worker[w].assistant_id # worker[v].assistant_id
        /\ Len(assistant_pool) >= 2

\* Worker w holds the lock named held and is at a step that takes the lock
\* named wanted.
Waits(w, held, wanted) ==
    /\ Holds(held, w)
    /\ \/ wanted = "assistant_pool_lock" /\ worker[w].pc = "ga_touch"
       \/ wanted = "thread_cache_lock" /\ worker[w].pc \in {"pq_bye_cache", "pq_bye_user"}

\* C32: no state has one worker holding thread_cache_lock and waiting for
\* assistant_pool_lock while another worker holds assistant_pool_lock and
\* waits for thread_cache_lock.
C32_NoDeadlock ==
    \A w, v \in Workers :
        ~ ( /\ w # v
            /\ Waits(w, "thread_cache_lock", "assistant_pool_lock")
            /\ Waits(v, "assistant_pool_lock", "thread_cache_lock") )

\* C33: a cleanup pass whose replenishment has left the pool at capacity
\* and whose revalidation finds assistants missing ends with the pool at
\* capacity.
C33_CapacityAfterCleanup ==
    [][(/\ dispatch_pc = "cl_revalidate" /\ dispatch_pc' = "poll"
        /\ Len(assistant_pool) = ASSISTANT_POOL_SIZE
        /\ Range(assistant_pool) \ openai_assistants # {}) =>
            Len(assistant_pool') = ASSISTANT_POOL_SIZE]_vars

\* C34: the revalidation of cleanup_task removes from the pool and from the
\* stored membership no assistant that exists at the completion service.
C34_RemovesOnlyMissing ==
    [][(dispatch_pc = "cl_revalidate" /\ dispatch_pc' = "poll") =>
            /\ (Range(assistant_pool) \ Range(assistant_pool')) \cap openai_assistants = {}
            /\ (pool_collection \ pool_collection') \cap openai_assistants = {}]_vars

\* C35: while the dispatch thread polls the queue or runs the cleanup, and
\* when wait() has returned and the actions of the batch are about to be
\* applied, active_requests is empty.
C35_NoMarkerOutsideWait ==
    (dispatch_pc \in {"poll", "cl_replenish", "cl_revalidate"} \/ BatchDone) =>
        active_requests = <<>>

\* wait() has returned for a batch of two tasks that both inserted a marker
\* and went on to process the request.
C35_Witness ==
    /\ BatchDone
    /\ Len(futures) = 2
    /\ \A i \in 1..Len(futures) : futures[i].wrote_processing
    /\ active_requests = <<>>

C37_SessionsPointAtOwnSlot ==
    \A i \in 1..Len(thread_cache) :
        /\ thread_cache[i].assistant_id \in Range(assistant_pool)
        /\ thread_cache[i].assistant_id \in DOMAIN assistant_assignments
        /\ assistant_assignments[thread_cache[i].assistant_id].user_email
              = thread_cache[i].user_email

\* The task of future i returned 'abandon' for a message whose request_id
\* was parsed: its exception handler wrote status 'error' without raising.
Abandoned(i) ==
    IsDone(i) /\ futures[i].action = "abandon" /\ futures[i].message.request_id # None

\* Between the end of a batch and the next one the dispatch thread leaves
\* the request store alone: the next delivery finds the status the batch left.
StatusKept == (BatchDone \/ dispatch_pc = "poll") => requests' = requests

C39_BatchSettles == (dispatch_pc = "wait") ~> (dispatch_pc = "poll")

\* C40: assistant_pool never holds more than ASSISTANT_POOL_SIZE assistants.
C40_PoolWithinCapacity == Len(assistant_pool) <= ASSISTANT_POOL_SIZE

====
